---------------------------- MODULE Spec2Model ----------------------------
(***************************************************************************)
(* Recurrence-rule engine of go-todo (internal/api/nextdate.go).           *)
(*                                                                         *)
(* A time.Time is modelled as a record [day, tod]: day is the number of    *)
(* days since 0001-01-01 (proleptic Gregorian, as Go counts), tod is 0 for *)
(* midnight and 1 for any later instant of that day.  Strings are          *)
(* sequences of one-character strings.                                     *)
(***************************************************************************)
EXTENDS Integers, Sequences, FiniteSets, TLC

-----------------------------------------------------------------------------
(* Program constants, internal/api/nextdate.go:14-20 *)

maxDaysInterval == 400
sundayNum == 7
expectedPartsWithMonths == 3
lastDayOfMonth == -1
beforeLastDayOfMonth == -2

(* allMonths, the default month list *)
allMonths == <<1, 2, 3, 4, 5, 6, 7, 8, 9, 10, 11, 12>>

-----------------------------------------------------------------------------
(* Go's time package: calendar arithmetic *)

IsLeap(y) == (y % 4 = 0 /\ y % 100 # 0) \/ y % 400 = 0

(* days before the first of month m in a non-leap year *)
daysBefore == <<0, 31, 59, 90, 120, 151, 181, 212, 243, 273, 304, 334, 365>>

DaysSinceEpoch(y) ==
    365 * (y - 1) + ((y - 1) \div 4) - ((y - 1) \div 100) + ((y - 1) \div 400)

DaysIn(y, m) ==
    IF m = 2 /\ IsLeap(y) THEN 29 ELSE daysBefore[m + 1] - daysBefore[m]

(* time.Date(y, m, d, 0,0,0,0, UTC): month and day out of range are        *)
(* normalised, the month by carrying into the year, the day as an offset   *)
(* from the first of the month.                                            *)
Date(y, m, d) ==
    LET yy == y + ((m - 1) \div 12)
        mm == ((m - 1) % 12) + 1
    IN  [day |-> DaysSinceEpoch(yy) + daysBefore[mm]
                    + (IF IsLeap(yy) /\ mm >= 3 THEN 1 ELSE 0) + d - 1,
         tod |-> 0]

Year(t) ==
    CHOOSE y \in ((t.day \div 366) + 1)..((t.day \div 365) + 1) :
        DaysSinceEpoch(y) <= t.day /\ t.day < DaysSinceEpoch(y + 1)

YearDay(t) == t.day - DaysSinceEpoch(Year(t))

Month(t) ==
    LET y == Year(t)
        yd == YearDay(t)
    IN  CHOOSE m \in 1..12 :
            /\ Date(y, m, 1).day - DaysSinceEpoch(y) <= yd
            /\ yd < Date(y, m + 1, 1).day - DaysSinceEpoch(y)

Day(t) == t.day - Date(Year(t), Month(t), 1).day + 1

(* time.Weekday: Sunday = 0 ... Saturday = 6; 0001-01-01 is a Monday *)
Weekday(t) == (t.day + 1) % 7

(* t.AddDate(years, months, days) of a midnight time *)
AddDate(t, years, months, days) ==
    Date(Year(t) + years, Month(t) + months, Day(t) + days)

(* t.Before(u) *)
Before(t, u) == t.day < u.day \/ (t.day = u.day /\ t.tod < u.tod)

-----------------------------------------------------------------------------
(* Strings *)

Digits == <<"0", "1", "2", "3", "4", "5", "6", "7", "8", "9">>

IsDigit(c) == \E i \in 1..10 : Digits[i] = c

DigitVal(c) == (CHOOSE i \in 1..10 : Digits[i] = c) - 1

AllDigits(s) == \A i \in 1..Len(s) : IsDigit(s[i])

RECURSIVE DigitsVal(_)
DigitsVal(s) ==
    IF s = <<>> THEN 0
    ELSE 10 * DigitsVal(SubSeq(s, 1, Len(s) - 1)) + DigitVal(s[Len(s)])

(* n written with exactly w digits, zero padded (n < 10^w) *)
RECURSIVE Pad(_, _)
Pad(n, w) == IF w = 0 THEN <<>> ELSE Append(Pad(n \div 10, w - 1), Digits[(n % 10) + 1])

(* strconv.Itoa for n >= 0 *)
RECURSIVE Itoa(_)
Itoa(n) == IF n < 10 THEN <<Digits[n + 1]>> ELSE Append(Itoa(n \div 10), Digits[(n % 10) + 1])

(* strconv.Atoi: an optional sign followed by one or more digits *)
Atoi(s) ==
    LET signed == s # <<>> /\ s[1] \in {"-", "+"}
        body == IF signed THEN Tail(s) ELSE s
    IN  IF body = <<>> \/ ~AllDigits(body) THEN [ok |-> FALSE, val |-> 0]
        ELSE [ok |-> TRUE,
              val |-> IF signed /\ s[1] = "-" THEN 0 - DigitsVal(body) ELSE DigitsVal(body)]

IsSpace(c) == c \in {" ", "\t"}

(* strings.TrimSpace *)
RECURSIVE TrimLeft(_)
TrimLeft(s) == IF s # <<>> /\ IsSpace(s[1]) THEN TrimLeft(Tail(s)) ELSE s

RECURSIVE TrimRight(_)
TrimRight(s) ==
    IF s # <<>> /\ IsSpace(s[Len(s)]) THEN TrimRight(SubSeq(s, 1, Len(s) - 1)) ELSE s

TrimSpace(s) == TrimRight(TrimLeft(s))

(* strings.Split(s, sep) for a one-character separator *)
RECURSIVE Split(_, _)
Split(s, sep) ==
    IF \A i \in 1..Len(s) : s[i] # sep THEN <<s>>
    ELSE LET i == CHOOSE j \in 1..Len(s) :
                      s[j] = sep /\ \A k \in 1..(j - 1) : s[k] # sep
         IN  <<SubSeq(s, 1, i - 1)>> \o Split(SubSeq(s, i + 1, Len(s)), sep)

(* t.Format("20060102") for years 0..9999 *)
Format(t) == Pad(Year(t), 4) \o Pad(Month(t), 2) \o Pad(Day(t), 2)

(* time.Parse("20060102", s): four year digits, two month digits, two day  *)
(* digits and nothing else; month and day are range checked.               *)
Parse(s) ==
    IF Len(s) # 8 \/ ~AllDigits(s) THEN [ok |-> FALSE, t |-> Date(1, 1, 1)]
    ELSE LET y == DigitsVal(SubSeq(s, 1, 4))
             m == DigitsVal(SubSeq(s, 5, 6))
             d == DigitsVal(SubSeq(s, 7, 8))
         IN  IF m < 1 \/ m > 12 \/ d < 1 \/ d > DaysIn(y, m)
             THEN [ok |-> FALSE, t |-> Date(1, 1, 1)]
             ELSE [ok |-> TRUE, t |-> Date(y, m, d)]

-----------------------------------------------------------------------------
(* Rule patterns, internal/api/nextdate.go:22-27 *)

\* pattern: one or two digits
IsNum12(s) == Len(s) \in 1..2 /\ AllDigits(s)

\* pattern: an optional minus sign, then one or two digits
IsSignedNum12(s) == IF s # <<>> /\ s[1] = "-" THEN IsNum12(Tail(s)) ELSE IsNum12(s)

\* reDay: "d", a space, one to three digits
reDay(s) ==
    /\ Len(s) \in 3..5
    /\ s[1] = "d" /\ s[2] = " "
    /\ AllDigits(SubSeq(s, 3, Len(s)))

\* reYear: exactly "y"
reYear(s) == s = <<"y">>

\* reWeek: "w", a space, single digits separated by commas
reWeek(s) ==
    /\ Len(s) >= 3 /\ Len(s) % 2 = 1
    /\ s[1] = "w" /\ s[2] = " "
    /\ \A i \in 3..Len(s) : IF i % 2 = 1 THEN IsDigit(s[i]) ELSE s[i] = ","

\* reMonth: "m", a space, comma-separated signed one/two-digit days,
\* then optionally a space and comma-separated one/two-digit months
reMonth(s) ==
    LET parts == Split(s, " ")
    IN  /\ Len(parts) \in 2..3
        /\ parts[1] = <<"m">>
        /\ LET ds == Split(parts[2], ",")
           IN  \A i \in 1..Len(ds) : IsSignedNum12(ds[i])
        /\ Len(parts) = 3 =>
               LET ms == Split(parts[3], ",")
               IN  \A i \in 1..Len(ms) : IsNum12(ms[i])

-----------------------------------------------------------------------------
(* Helpers, internal/api/nextdate.go:244-303 *)

\* variant: a date equal to now counts as after it
afterNow_orEqual(n, date) == ~Before(date, n)

afterNow(n, date) == Before(n, date)

(* slices.Compact: drops each element equal to its predecessor *)
RECURSIVE Compact(_)
Compact(s) ==
    IF Len(s) <= 1 THEN s
    ELSE LET front == Compact(SubSeq(s, 1, Len(s) - 1))
         IN  IF s[Len(s)] = s[Len(s) - 1] THEN front ELSE Append(front, s[Len(s)])

\* variant: the list is left as it was written
sortUniqueInts_asWritten(in) == in

sortUniqueInts(in) == Compact(SortSeq(in, LAMBDA a, b : a < b))

\* variant: the search always starts from the start date
computeBaseTime_start(n, start) == start

computeBaseTime(n, start) == IF afterNow(n, start) THEN start ELSE n

computeLastMonthDay(year, month) == Day(Date(year, month + 1, 0))

\* variant: a negative day is counted from the first of the following month
\* without the +1
resolveDays_offByOne(mds, y, m) ==
    sortUniqueInts([i \in 1..Len(mds) |->
                       IF mds[i] < 0 THEN Day(Date(y, m + 1, mds[i])) ELSE mds[i]])

resolveDays(mds, y, m) ==
    sortUniqueInts([i \in 1..Len(mds) |->
                       IF mds[i] < 0 THEN Day(Date(y, m + 1, mds[i] + 1)) ELSE mds[i]])

midnight(t) == Date(Year(t), Month(t), Day(t))

-----------------------------------------------------------------------------
(* State of one NextDate call *)

VARIABLES
    now,            \* argument now (time.Time); reassigned to midnight(now)
    dStart,         \* argument dStart (string); reassigned to its trimmed form
    repeat,         \* argument repeat (string); reassigned to its trimmed form
    pc,             \* position of the call
    startDate,      \* local startDate of NextDate, nextDaily and nextYearly
    days,           \* local days of nextDaily
    monthDaysInt,   \* local monthDaysInt of nextMonthly
    monthsInt,      \* local monthsInt of nextMonthly
    baseTime,       \* local baseTime of nextWeekly and nextMonthly
    monthDays,      \* local monthDays of the month loops of nextMonthly
    idx,            \* position of the running "for _, m := range monthsInt"
    steps,          \* iterations of the daily/yearly loop executed so far
    ret             \* the returned (string, error) pair

(* State outside the running call *)
VARIABLES
    pkgAllMonths,   \* the package-level slice allMonths, shared by all calls
    other,          \* arguments and locals of a second, concurrent call
    db,             \* package db: the rows of table scheduler and its id sequence
    clock,          \* the instant time.Now() returns
    auth,           \* h.auth, the configuration built by config.New
    resp,           \* the last request served and the response written
    conn,           \* the *sql.DB of package db: "nil", "open" or "closed"
    prog,           \* main: its position, the database file on disk, Init's error
    inflight        \* the done requests being served concurrently, by goroutine

callVars == <<now, dStart, repeat, pc, startDate, days, monthDaysInt, monthsInt,
              baseTime, monthDays, idx, steps, ret>>

(* what a step of a call leaves alone *)
restVars == <<pkgAllMonths, other, db, clock, auth, resp, conn, prog, inflight>>

vars == <<now, dStart, repeat, pc, startDate, days, monthDaysInt, monthsInt,
          baseTime, monthDays, idx, steps, ret,
          pkgAllMonths, other, db, clock, auth, resp, conn, prog, inflight>>

(* the zero time.Time, January 1 of year 1 *)
zeroTime == Date(1, 1, 1)

(* The error kinds of the engine, by the message the code builds:           *)
(*   EmptyRule            "repeat rule is empty"                            *)
(*   InvalidDateSyntax    "error parsing the initial date ..."              *)
(*   UnsupportedFormat    "unsupported interval format ..."                 *)
(*   InvalidNumericField  "invalid day/weekday/monthday/month ..."          *)
(*   NoMatchingDay        "invalid repeat rule: there aren't these days..." *)
ErrorKinds ==
    {"EmptyRule", "InvalidDateSyntax", "UnsupportedFormat", "InvalidNumericField",
     "NoMatchingDay"}

Ok(t) == [date |-> Format(t), err |-> "nil"]
Fail(kind) == [date |-> <<>>, err |-> kind]

Return(r) == pc' = "done" /\ ret' = r

-----------------------------------------------------------------------------
(* NextDate, internal/api/nextdate.go:44-71 *)

\* variant: the start date is parsed before the rule is tested for emptiness
NextDate_parseFirst ==
    /\ pc = "NextDate"
    /\ repeat' = TrimSpace(repeat)
    /\ dStart' = TrimSpace(dStart)
    /\ IF ~Parse(dStart').ok
       THEN Return(Fail("InvalidDateSyntax")) /\ UNCHANGED <<now, startDate>>
       ELSE IF repeat' = <<>>
       THEN Return(Fail("EmptyRule")) /\ startDate' = Parse(dStart').t /\ now' = now
       ELSE /\ startDate' = Parse(dStart').t
            /\ now' = midnight(now)
            /\ pc' = "switch"
            /\ ret' = ret
    /\ UNCHANGED <<days, monthDaysInt, monthsInt, baseTime, monthDays, idx, steps>>
    /\ UNCHANGED restVars

(* lines 45-53: trim, reject the empty rule, parse the start date, normalise now *)
NextDate ==
    /\ pc = "NextDate"
    /\ repeat' = TrimSpace(repeat)
    /\ dStart' = TrimSpace(dStart)
    /\ IF repeat' = <<>>
       THEN Return(Fail("EmptyRule")) /\ UNCHANGED <<now, startDate>>
       ELSE IF ~Parse(dStart').ok
       THEN Return(Fail("InvalidDateSyntax")) /\ UNCHANGED <<now, startDate>>
       ELSE /\ startDate' = Parse(dStart').t
            /\ now' = midnight(now)
            /\ pc' = "switch"
            /\ ret' = ret
    /\ UNCHANGED <<days, monthDaysInt, monthsInt, baseTime, monthDays, idx, steps>>
    /\ UNCHANGED restVars

(* lines 55-70: the first pattern that matches selects the resolver *)
classify(rep) ==
    IF reDay(rep) THEN "nextDaily"
    ELSE IF reYear(rep) THEN "nextYearly"
    ELSE IF reWeek(rep) THEN "nextWeekly"
    ELSE IF reMonth(rep) THEN "nextMonthly"
    ELSE "unsupported"

Switch ==
    /\ pc = "switch"
    /\ IF classify(repeat) = "unsupported"
       THEN Return(Fail("UnsupportedFormat"))
       ELSE pc' = classify(repeat) /\ ret' = ret
    /\ UNCHANGED <<now, dStart, repeat, startDate, days, monthDaysInt, monthsInt,
                   baseTime, monthDays, idx, steps>>
    /\ UNCHANGED restVars

-----------------------------------------------------------------------------
(* nextDaily, internal/api/nextdate.go:77-94 *)

\* variant: no upper limit on the interval
dailyIntervalOk_noCap(n) == ~(n <= 0)

(* line 83: the accepted intervals *)
dailyIntervalOk(n) == ~(n <= 0 \/ n > maxDaysInterval)

(* lines 78-85 *)
nextDaily ==
    /\ pc = "nextDaily"
    /\ \E n \in {Atoi(Split(repeat, " ")[2])} :
           IF ~n.ok \/ ~dailyIntervalOk(n.val)
           THEN Return(Fail("InvalidNumericField")) /\ days' = days
           ELSE days' = n.val /\ pc' = "dailyLoop" /\ ret' = ret
    /\ UNCHANGED <<now, dStart, repeat, startDate, monthDaysInt, monthsInt,
                   baseTime, monthDays, idx, steps>>
    /\ UNCHANGED restVars

\* variant: a start date that is already after now is not stepped
dailyStep_ifDue(t, n) == IF afterNow(now, t) THEN t ELSE AddDate(t, 0, 0, n)

\* variant: the interval is passed as months
dailyStep_months(t, n) == AddDate(t, 0, n, 0)

(* line 88 *)
dailyStep(t, n) == AddDate(t, 0, 0, n)

(* lines 87-93: one iteration of the loop, and the return when it breaks *)
nextDailyLoop ==
    /\ pc = "dailyLoop"
    /\ startDate' = dailyStep(startDate, days)
    /\ steps' = steps + 1
    /\ IF afterNow(now, startDate')
       THEN Return(Ok(startDate'))
       ELSE pc' = pc /\ ret' = ret
    /\ UNCHANGED <<now, dStart, repeat, days, monthDaysInt, monthsInt, baseTime,
                   monthDays, idx>>
    /\ UNCHANGED restVars

-----------------------------------------------------------------------------
(* nextYearly, internal/api/nextdate.go:100-108 *)

\* variant: the step adds no year
yearStep_none(t) == AddDate(t, 0, 0, 0)

\* variant: a step from 1 March into a leap year goes back to 29 February
yearStep_leapDay(t) ==
    IF Month(t) = 3 /\ Day(t) = 1 /\ IsLeap(Year(t) + 1)
    THEN Date(Year(t) + 1, 2, 29)
    ELSE AddDate(t, 1, 0, 0)

\* variant: 29 February steps to 28 February of the next year
yearStep_clamp(t) ==
    IF Month(t) = 2 /\ Day(t) = 29 THEN Date(Year(t) + 1, 2, 28) ELSE AddDate(t, 1, 0, 0)

(* line 102 *)
yearStep(t) == AddDate(t, 1, 0, 0)

(* lines 101-107: one iteration of the loop, and the return when it breaks *)
nextYearly ==
    /\ pc = "nextYearly"
    /\ startDate' = yearStep(startDate)
    /\ steps' = steps + 1
    /\ IF afterNow(now, startDate')
       THEN Return(Ok(startDate'))
       ELSE pc' = pc /\ ret' = ret
    /\ UNCHANGED <<now, dStart, repeat, days, monthDaysInt, monthsInt, baseTime,
                   monthDays, idx>>
    /\ UNCHANGED restVars

-----------------------------------------------------------------------------
(* nextWeekly, internal/api/nextdate.go:115-151 *)

(* line 125 *)
weekdayOk(n) == ~(n <= 0 \/ n > 7)

(* lines 133-136 *)
isoWeekday(t) == IF Weekday(t) = 0 THEN sundayNum ELSE Weekday(t)

(* lines 138-144: the first listed weekday after the current one, else 0 *)
RECURSIVE firstLater(_, _, _)
firstLater(weekDaysInt, i, currentWeekDay) ==
    IF i > Len(weekDaysInt) THEN 0
    ELSE IF currentWeekDay < weekDaysInt[i] THEN weekDaysInt[i] - currentWeekDay
    ELSE firstLater(weekDaysInt, i + 1, currentWeekDay)

\* variant: a listed weekday equal to the current one is taken ("<=" for "<")
RECURSIVE firstLaterOrSame(_, _, _)
firstLaterOrSame(weekDaysInt, i, currentWeekDay) ==
    IF i > Len(weekDaysInt) THEN 0
    ELSE IF currentWeekDay <= weekDaysInt[i] THEN weekDaysInt[i] - currentWeekDay
    ELSE firstLaterOrSame(weekDaysInt, i + 1, currentWeekDay)

weeklyDaysToAdd_sameDay(weekDaysInt, currentWeekDay) ==
    LET daysToAdd == firstLaterOrSame(weekDaysInt, 1, currentWeekDay)
    IN  IF daysToAdd = 0 THEN 7 - currentWeekDay + weekDaysInt[1] ELSE daysToAdd

(* lines 138-147 *)
weeklyDaysToAdd(weekDaysInt, currentWeekDay) ==
    LET daysToAdd == firstLater(weekDaysInt, 1, currentWeekDay)
    IN  IF daysToAdd = 0 THEN 7 - currentWeekDay + weekDaysInt[1] ELSE daysToAdd

(* lines 116-130: the parsed weekday list, or the failure *)
parseWeekDays(rep) ==
    LET parts == Split(rep, " ")
        weekDaysStr == Split(parts[2], ",")
        nums == [i \in 1..Len(weekDaysStr) |-> Atoi(weekDaysStr[i])]
    IN  IF \E i \in 1..Len(nums) : ~nums[i].ok \/ ~weekdayOk(nums[i].val)
        THEN [ok |-> FALSE, list |-> <<>>]
        ELSE [ok |-> TRUE, list |-> sortUniqueInts([i \in 1..Len(nums) |-> nums[i].val])]

nextWeekly ==
    /\ pc = "nextWeekly"
    /\ \E w \in {parseWeekDays(repeat)} :
           IF ~w.ok
           THEN Return(Fail("InvalidNumericField")) /\ baseTime' = baseTime
           ELSE /\ baseTime' = computeBaseTime(now, startDate)
                /\ \E daysToAdd \in {weeklyDaysToAdd(w.list, isoWeekday(baseTime'))} :
                       \E newDate \in {AddDate(baseTime', 0, 0, daysToAdd)} :
                           Return(Ok(newDate))
    /\ UNCHANGED <<now, dStart, repeat, startDate, days, monthDaysInt, monthsInt,
                   monthDays, idx, steps>>
    /\ UNCHANGED restVars

-----------------------------------------------------------------------------
(* nextMonthly, internal/api/nextdate.go:160-242 *)

(* line 170 *)
monthDayOk(n) ==
    ~((n # lastDayOfMonth /\ n # beforeLastDayOfMonth) /\ (n <= 0 \/ n > 31))

(* line 186 *)
monthOk(n) == ~(n <= 0 \/ n > 12)

(* lines 161-175: the parsed day list, or the failure *)
parseMonthDays(rep) ==
    LET parts == Split(rep, " ")
        monthDaysStr == Split(parts[2], ",")
        nums == [i \in 1..Len(monthDaysStr) |-> Atoi(monthDaysStr[i])]
    IN  IF \E i \in 1..Len(nums) : ~nums[i].ok \/ ~monthDayOk(nums[i].val)
        THEN [ok |-> FALSE, list |-> <<>>]
        ELSE [ok |-> TRUE, list |-> sortUniqueInts([i \in 1..Len(nums) |-> nums[i].val])]

(* lines 177-195: the parsed month list (allMonths when none is given), or *)
(* the failure                                                             *)
parseMonths(rep) ==
    LET parts == Split(rep, " ")
    IN  IF Len(parts) = expectedPartsWithMonths
        THEN LET monthsStr == Split(parts[3], ",")
                 nums == [i \in 1..Len(monthsStr) |-> Atoi(monthsStr[i])]
             IN  IF \E i \in 1..Len(nums) : ~nums[i].ok \/ ~monthOk(nums[i].val)
                 THEN [ok |-> FALSE, list |-> <<>>]
                 ELSE [ok |-> TRUE,
                       list |-> sortUniqueInts([i \in 1..Len(nums) |-> nums[i].val])]
        ELSE [ok |-> TRUE, list |-> pkgAllMonths]

(* lines 161-203 *)
nextMonthly ==
    /\ pc = "nextMonthly"
    /\ \E ds \in {parseMonthDays(repeat)}, ms \in {parseMonths(repeat)} :
           IF ~ds.ok \/ ~ms.ok
           THEN /\ Return(Fail("InvalidNumericField"))
                /\ UNCHANGED <<monthDaysInt, monthsInt, baseTime, idx>>
           ELSE /\ monthDaysInt' = ds.list
                /\ monthsInt' = ms.list
                /\ baseTime' = computeBaseTime(now, startDate)
                /\ idx' = 1
                /\ pc' = "phase1"
                /\ ret' = ret
    /\ UNCHANGED <<now, dStart, repeat, startDate, days, monthDays, steps>>
    /\ UNCHANGED restVars

NotFound == [found |-> FALSE, t |-> zeroTime]
Found(t) == [found |-> TRUE, t |-> t]

\* variant: the days of the base month that are not after the base day are
\* not skipped
RECURSIVE phase1Days_noSkip(_, _, _, _)
phase1Days_noSkip(mdays, i, m, base) ==
    IF i > Len(mdays) THEN NotFound
    ELSE IF mdays[i] > computeLastMonthDay(Year(base), m) THEN NotFound
    ELSE IF Month(base) = m THEN Found(AddDate(base, 0, 0, mdays[i] - Day(base)))
    ELSE Found(Date(Year(base), m, mdays[i]))

\* variant: a day beyond the month's length is clamped to its last day
RECURSIVE phase1Days_clamp(_, _, _, _)
phase1Days_clamp(mdays, i, m, base) ==
    IF i > Len(mdays) THEN NotFound
    ELSE LET maxMonthDay == computeLastMonthDay(Year(base), m)
             md == IF mdays[i] > maxMonthDay THEN maxMonthDay ELSE mdays[i]
         IN  IF Month(base) = m
             THEN IF md <= Day(base)
                  THEN phase1Days_clamp(mdays, i + 1, m, base)
                  ELSE Found(AddDate(base, 0, 0, md - Day(base)))
             ELSE Found(Date(Year(base), m, md))

(* lines 208-223: the loop over the resolved days of month m of the       *)
(* current year, from position i                                          *)
RECURSIVE phase1Days(_, _, _, _)
phase1Days(mdays, i, m, base) ==
    IF i > Len(mdays) THEN NotFound
    ELSE LET md == mdays[i]
             maxMonthDay == computeLastMonthDay(Year(base), m)
         IN  IF md > maxMonthDay THEN NotFound
             ELSE IF Month(base) = m
             THEN IF md <= Day(base)
                  THEN phase1Days(mdays, i + 1, m, base)
                  ELSE Found(AddDate(base, 0, 0, md - Day(base)))
             ELSE Found(Date(Year(base), m, md))

\* variant: the second loop takes the last requested day of the month
phase2Days_last(mdays, m, nextYear) ==
    IF mdays = <<>> THEN NotFound
    ELSE IF mdays[Len(mdays)] > computeLastMonthDay(nextYear, m) THEN NotFound
    ELSE Found(Date(nextYear, m, mdays[Len(mdays)]))

(* lines 231-239: the loop over the resolved days of month m of the next  *)
(* year; it returns or breaks at its first element                        *)
phase2Days(mdays, m, nextYear) ==
    IF mdays = <<>> THEN NotFound
    ELSE IF mdays[1] > computeLastMonthDay(nextYear, m) THEN NotFound
    ELSE Found(Date(nextYear, m, mdays[1]))

\* variant: the second loop searches the current year again
nextYearOf_same(base) == Year(base)

(* line 202 *)
nextYearOf(base) == Year(base) + 1

(* lines 204-225: one iteration of the first loop *)
nextMonthlyPhase1 ==
    /\ pc = "phase1"
    /\ IF idx > Len(monthsInt)
       THEN pc' = "phase2" /\ idx' = 1 /\ ret' = ret /\ monthDays' = monthDays
       ELSE IF Month(baseTime) <= monthsInt[idx]
       THEN /\ monthDays' = resolveDays(monthDaysInt, Year(baseTime), monthsInt[idx])
            /\ \E r \in {phase1Days(monthDays', 1, monthsInt[idx], baseTime)} :
                   IF r.found
                   THEN Return(Ok(r.t)) /\ idx' = idx
                   ELSE pc' = pc /\ idx' = idx + 1 /\ ret' = ret
       ELSE pc' = pc /\ idx' = idx + 1 /\ ret' = ret /\ monthDays' = monthDays
    /\ UNCHANGED <<now, dStart, repeat, startDate, days, monthDaysInt, monthsInt,
                   baseTime, steps>>
    /\ UNCHANGED restVars

(* lines 228-241: one iteration of the second loop, and the final failure *)
nextMonthlyPhase2 ==
    /\ pc = "phase2"
    /\ IF idx > Len(monthsInt)
       THEN Return(Fail("NoMatchingDay")) /\ idx' = idx /\ monthDays' = monthDays
       ELSE /\ monthDays' = resolveDays(monthDaysInt, nextYearOf(baseTime), monthsInt[idx])
            /\ \E r \in {phase2Days(monthDays', monthsInt[idx], nextYearOf(baseTime))} :
                   IF r.found
                   THEN Return(Ok(r.t)) /\ idx' = idx
                   ELSE pc' = pc /\ idx' = idx + 1 /\ ret' = ret
    /\ UNCHANGED <<now, dStart, repeat, startDate, days, monthDaysInt, monthsInt,
                   baseTime, steps>>
    /\ UNCHANGED restVars

-----------------------------------------------------------------------------
(* NextDate as its callers see it: the pair a whole call returns *)

(* lines 87-92: the date the loop of nextDaily breaks with *)
RECURSIVE dailyLoopCall(_, _, _)
dailyLoopCall(n, t, d) ==
    LET next == dailyStep(t, d)
    IN  IF afterNow(n, next) THEN next ELSE dailyLoopCall(n, next, d)

(* lines 77-94 *)
nextDailyCall(n, start, rep) ==
    LET a == Atoi(Split(rep, " ")[2])
    IN  IF ~a.ok \/ ~dailyIntervalOk(a.val) THEN Fail("InvalidNumericField")
        ELSE Ok(dailyLoopCall(n, start, a.val))

(* lines 101-106: the date the loop of nextYearly breaks with *)
RECURSIVE yearlyLoopCall(_, _)
yearlyLoopCall(n, t) ==
    LET next == yearStep(t)
    IN  IF afterNow(n, next) THEN next ELSE yearlyLoopCall(n, next)

(* lines 100-108 *)
nextYearlyCall(n, start) == Ok(yearlyLoopCall(n, start))

(* lines 115-151 *)
nextWeeklyCall(n, start, rep) ==
    LET w == parseWeekDays(rep)
        base == computeBaseTime(n, start)
    IN  IF ~w.ok THEN Fail("InvalidNumericField")
        ELSE Ok(AddDate(base, 0, 0, weeklyDaysToAdd(w.list, isoWeekday(base))))

(* lines 204-225: the first loop from position i of the month list *)
RECURSIVE monthlyPhase1Call(_, _, _, _)
monthlyPhase1Call(mds, ms, i, base) ==
    IF i > Len(ms) THEN NotFound
    ELSE IF Month(base) <= ms[i]
    THEN LET r == phase1Days(resolveDays(mds, Year(base), ms[i]), 1, ms[i], base)
         IN  IF r.found THEN r ELSE monthlyPhase1Call(mds, ms, i + 1, base)
    ELSE monthlyPhase1Call(mds, ms, i + 1, base)

(* lines 228-240: the second loop from position i of the month list *)
RECURSIVE monthlyPhase2Call(_, _, _, _)
monthlyPhase2Call(mds, ms, i, base) ==
    IF i > Len(ms) THEN NotFound
    ELSE LET r == phase2Days(resolveDays(mds, nextYearOf(base), ms[i]), ms[i],
                             nextYearOf(base))
         IN  IF r.found THEN r ELSE monthlyPhase2Call(mds, ms, i + 1, base)

(* lines 160-242 *)
nextMonthlyCall(n, start, rep) ==
    LET ds == parseMonthDays(rep)
        ms == parseMonths(rep)
        base == computeBaseTime(n, start)
    IN  IF ~ds.ok \/ ~ms.ok THEN Fail("InvalidNumericField")
        ELSE LET r1 == monthlyPhase1Call(ds.list, ms.list, 1, base)
             IN  IF r1.found THEN Ok(r1.t)
                 ELSE LET r2 == monthlyPhase2Call(ds.list, ms.list, 1, base)
                      IN  IF r2.found THEN Ok(r2.t) ELSE Fail("NoMatchingDay")

(* lines 44-71 *)
NextDateCall(n, ds, rep) ==
    LET r == TrimSpace(rep)
        d == TrimSpace(ds)
    IN  IF r = <<>> THEN Fail("EmptyRule")
        ELSE IF ~Parse(d).ok THEN Fail("InvalidDateSyntax")
        ELSE LET start == Parse(d).t
                 n0 == midnight(n)
                 kind == classify(r)
             IN  IF kind = "nextDaily" THEN nextDailyCall(n0, start, r)
                 ELSE IF kind = "nextYearly" THEN nextYearlyCall(n0, start)
                 ELSE IF kind = "nextWeekly" THEN nextWeeklyCall(n0, start, r)
                 ELSE IF kind = "nextMonthly" THEN nextMonthlyCall(n0, start, r)
                 ELSE Fail("UnsupportedFormat")

-----------------------------------------------------------------------------
(* Inputs *)

SignedItoa(n) == IF n < 0 THEN <<"-">> \o Itoa(0 - n) ELSE Itoa(n)

RECURSIVE JoinInts(_)
JoinInts(list) ==
    IF Len(list) = 0 THEN <<>>
    ELSE IF Len(list) = 1 THEN SignedItoa(list[1])
    ELSE SignedItoa(list[1]) \o <<",">> \o JoinInts(Tail(list))

RECURSIVE SetToSeq(_)
SetToSeq(S) ==
    IF S = {} THEN <<>>
    ELSE LET x == CHOOSE y \in S : \A z \in S : y <= z
         IN  <<x>> \o SetToSeq(S \ {x})

DailyRule(n) == <<"d", " ">> \o Itoa(n)
WeeklyRule(list) == <<"w", " ">> \o JoinInts(list)
MonthlyRule(dayList, monthList) ==
    <<"m", " ">> \o JoinInts(dayList)
        \o (IF monthList = <<>> THEN <<>> ELSE <<" ">> \o JoinInts(monthList))

At(t, tod) == [day |-> t.day, tod |-> tod]
Plus(t, g) == [day |-> t.day + g, tod |-> 0]

(* no second call: a frame that has returned *)
noCall ==
    [now |-> zeroTime, dStart |-> <<>>, repeat |-> <<>>, pc |-> "done",
     startDate |-> zeroTime, days |-> 0, monthDaysInt |-> <<>>, monthsInt |-> <<>>,
     baseTime |-> zeroTime, monthDays |-> <<>>, idx |-> 0, steps |-> 0,
     ret |-> [date |-> <<>>, err |-> "nil"]]

(* the empty table, no password, no request served yet *)
emptyDb == [scheduler |-> {}, seq |-> 0]
noAuth == [Password |-> <<>>, PasswordHash |-> <<>>, SecretKey |-> <<>>]
payload(kind, v) == [kind |-> kind, v |-> v]
nothing == payload("none", <<>>)
noResp == [route |-> "none", req |-> nothing, status |-> 0, error |-> "", body |-> nothing]
(* main past a successful db.Init on a file that existed; no done request *)
(* in flight                                                             *)
serving == [pc |-> "Run", dbFile |-> "present", err |-> "nil"]
noRequests == <<>>

(* the state around a single call of the engine *)
InitRest ==
    /\ pkgAllMonths = allMonths
    /\ db = emptyDb
    /\ clock = zeroTime
    /\ auth = noAuth
    /\ resp = noResp
    /\ conn = "open"
    /\ prog = serving
    /\ inflight = noRequests

(* the running call at its entry *)
InitFrame(rep, ds, n) ==
    /\ InitRest
    /\ repeat = rep
    /\ dStart = ds
    /\ now = n
    /\ pc = "NextDate"
    /\ startDate = zeroTime
    /\ days = 0
    /\ monthDaysInt = <<>>
    /\ monthsInt = <<>>
    /\ baseTime = zeroTime
    /\ monthDays = <<>>
    /\ idx = 0
    /\ steps = 0
    /\ ret = [date |-> <<>>, err |-> "nil"]

(* a single call *)
InitCall(rep, ds, n) == InitFrame(rep, ds, n) /\ other = noCall

(* Rule and start strings, well formed and not, for the parsing claims *)
ParseRules ==
    { <<>>,
      <<" ">>,
      <<" ", " ", "\t">>,
      <<"d", " ", "3">>,
      <<" ", "d", " ", "3", " ">>,
      <<"d", " ", "1">>,
      <<"d", " ", "4", "0", "0">>,
      <<"d", " ", "0">>,
      <<"d", " ", "4", "0", "1">>,
      <<"d", " ", "5", "0", "0">>,
      <<"d", " ", "9", "9", "9">>,
      <<"d", " ", "0", "0", "7">>,
      <<"d", " ", "1", "0", "0", "0">>,
      <<"d">>,
      <<"d", " ">>,
      <<"d", " ", "-", "1">>,
      <<"d", " ", "3", " ", "4">>,
      <<"d", " ", " ", "3">>,
      <<"D", " ", "3">>,
      <<"d", "3">>,
      <<"y">>,
      <<" ", "y">>,
      <<"y", " ", "1">>,
      <<"y", "y">>,
      <<"Y">>,
      <<"w", " ", "1">>,
      <<"w", " ", "7">>,
      <<"w", " ", "1", ",", "3">>,
      <<"w", " ", "3", ",", "1", ",", "3">>,
      <<"w", " ", "0">>,
      <<"w", " ", "8">>,
      <<"w", " ", "1", ",", "9">>,
      <<"w", " ", "1", "0">>,
      <<"w", " ", "1", ",">>,
      <<"w", " ", "-", "1">>,
      <<"w">>,
      <<"w", " ", "1", " ", "2">>,
      <<"w", " ", "1", ",", " ", "3">>,
      <<"m", " ", "1">>,
      <<"m", " ", "-", "1">>,
      <<"m", " ", "-", "2">>,
      <<"m", " ", "3", "1">>,
      <<"m", " ", "1", "5", ",", "-", "1", ",", "1", "5", " ", "6", ",", "3">>,
      <<"m", " ", "-", "1", ",", "1", "5", " ", "3", ",", "6">>,
      <<"m", " ", "3", "1", " ", "4", ",", "6", ",", "9", ",", "1", "1">>,
      <<"m", " ", "3", "0", " ", "2">>,
      <<"m", " ", "2", "9", " ", "2">>,
      <<"m", " ", "3", "2">>,
      <<"m", " ", "0">>,
      <<"m", " ", "-", "3">>,
      <<"m", " ", "-", "0">>,
      <<"m", " ", "1", " ", "1", "3">>,
      <<"m", " ", "1", " ", "0">>,
      <<"m", " ", "3", "2", " ", "1", "3">>,
      <<"m", " ", "1", ",", "4", "0", " ", "2">>,
      <<"m", " ", "1", " ", "2", ",", "1", "3">>,
      <<"m", " ", "1", "0", "0">>,
      <<"m", " ", "1", " ", "-", "1">>,
      <<"m", " ", "1", " ", "2", " ", "3">>,
      <<"m">>,
      <<"m", " ", ",", "1">>,
      <<"m", " ", "1", ",", ",", "2">>,
      <<"m", " ", "1", " ", "1", "2", "3">>,
      <<"m", " ", "-", "-", "1">>,
      <<"m", " ", "+", "1">>,
      <<"x", " ", "1">>,
      <<"3">> }

ParseStarts ==
    { <<"2", "0", "2", "4", "0", "3", "0", "1">>,
      <<" ", "2", "0", "2", "4", "0", "3", "0", "1", " ">>,
      <<"2", "0", "2", "4", "0", "2", "2", "9">>,
      <<"2", "0", "2", "3", "1", "2", "3", "1">>,
      <<"2", "0", "2", "3", "0", "2", "2", "9">>,
      <<"2", "0", "2", "4", "1", "3", "0", "1">>,
      <<"2", "0", "2", "4", "0", "4", "3", "1">>,
      <<"2", "0", "2", "4", "0", "1", "0", "0">>,
      <<"2", "0", "2", "4", "0", "3", "1">>,
      <<"2", "0", "2", "4", "0", "3", "0", "1", "1">>,
      <<"2", "0", "2", "4", "-", "0", "3", "-", "0", "1">>,
      <<"0", "1", ".", "0", "3", ".", "2", "0", "2", "4">>,
      <<>>,
      <<"a", "b", "c", "d", "e", "f", "g", "h">> }

ParseNows == {At(Date(2024, 3, 5), 1), At(Date(2024, 12, 31), 0), At(Date(2023, 2, 10), 1)}

(* Bounds of the explored inputs *)
NumStarts == 6          \* daily: start dates, 16 days apart from 2023-12-28
MaxBack == 2            \* daily, weekly: now is at most this many days before start
MaxGap == 12            \* daily: now is at most this many days after start ...
MaxSteps == 12          \* ... or further, while the loop takes at most MaxSteps + 1 steps
MaxInterval == 4        \* daily: every interval 1..MaxInterval
NumWeekStarts == 8      \* weekly: consecutive start dates of each window
MaxWeekGap == 3         \* weekly: now is at most this many days after start
MaxWeekSet == 2         \* weekly: every weekday set of at most this size
MonthlyYears == 2       \* monthly: years of reference dates, from 2023
YearlyYears == 6        \* yearly: years of reference dates, from 2023
YearlyStartYears == 2   \* yearly: years of start dates, from 2023

DailyIntervals == (1..MaxInterval) \cup {7, 30, 365, 399, maxDaysInterval}
DailyBadIntervals == {0, maxDaysInterval + 1, 999}
DailyGaps == ((0 - MaxBack)..MaxGap) \cup {365, 400, 401, 800, 1200}

InitDaily ==
    \E i \in 0..(NumStarts - 1), g \in DailyGaps, tod \in 0..1,
       n \in DailyIntervals \cup DailyBadIntervals :
        LET s == Plus(Date(2023, 12, 28), 16 * i)
        IN  /\ n \in DailyIntervals => g <= n * MaxSteps
            /\ InitCall(DailyRule(n), Format(s), At(Plus(s, g), tod))

WeekSets == {W \in SUBSET (1..7) : W # {} /\ Cardinality(W) <= MaxWeekSet} \cup {1..7}

WeeklyRules ==
    {WeeklyRule(SetToSeq(W)) : W \in WeekSets}
        \cup {WeeklyRule(l) : l \in {<<3, 1, 3>>, <<7, 1>>, <<5, 5>>, <<0>>, <<8>>, <<1, 9>>}}

WeeklyStarts ==
    {Plus(Date(2024, 2, 26), i) : i \in 0..(NumWeekStarts - 1)}
        \cup {Plus(Date(2023, 12, 27), i) : i \in 0..(NumWeekStarts - 1)}

InitWeekly ==
    \E r \in WeeklyRules, s \in WeeklyStarts, g \in (0 - MaxBack)..MaxWeekGap, tod \in 0..1 :
        InitCall(r, Format(s), At(Plus(s, g), tod))

MonthlyDayLists ==
    {<<d>> : d \in {-2, -1, 1, 15, 28, 29, 30, 31}}
        \cup {<<-1, 31>>, <<-2, 30>>, <<15, 31>>, <<1, -1>>, <<30, 31>>, <<29, 30>>,
              <<15, -1, 15>>, <<31, 1>>, <<-1, -2>>}

MonthlyMonthLists ==
    {<<>>} \cup {<<m>> : m \in 1..12}
        \cup {<<4, 6, 9, 11>>, <<2, 12>>, <<1, 2>>, <<6, 3>>, <<12, 2, 12>>}

MonthlyRules ==
    {MonthlyRule(d, m) : d \in MonthlyDayLists, m \in MonthlyMonthLists}
        \cup {MonthlyRule(d, <<>>) : d \in {<<32>>, <<0>>, <<-3>>, <<1, 40>>}}
        \cup {MonthlyRule(<<1>>, m) : m \in {<<13>>, <<0>>, <<2, 13>>}}

MonthlyNows ==
    {Date(2023 + y, m, d) : y \in 0..(MonthlyYears - 1), m \in {1, 2, 4, 12},
                            d \in {1, 15, 30}}

(* start relative to now, and the time of day of now *)
MonthlyOffsets == {<<-45, 1>>, <<0, 0>>, <<40, 1>>}

InitMonthly ==
    \E r \in MonthlyRules, n \in MonthlyNows, o \in MonthlyOffsets :
        InitCall(r, Format(Plus(n, o[1])), At(n, o[2]))

YearlyMonthDays == {<<1, 1>>, <<2, 28>>, <<2, 29>>, <<3, 1>>, <<12, 31>>}

YearlyStarts ==
    {Date(2023 + y, md[1], md[2]) : y \in 0..(YearlyStartYears - 1), md \in YearlyMonthDays}

YearlyNows ==
    {Date(2023 + y, md[1], md[2]) : y \in 0..(YearlyYears - 1), md \in YearlyMonthDays}

InitYearly ==
    \E s \in YearlyStarts, n \in YearlyNows, tod \in 0..1 :
        InitCall(<<"y">>, Format(s), At(n, tod))

InitParse ==
    \E r \in ParseRules, s \in ParseStarts, n \in ParseNows : InitCall(r, s, n)

-----------------------------------------------------------------------------
(* Specifications: one call of NextDate on each family of inputs *)

NextDaily == NextDate \/ Switch \/ nextDaily \/ nextDailyLoop
NextYearly == NextDate \/ Switch \/ nextYearly
NextWeekly == NextDate \/ Switch \/ nextWeekly
NextMonthly == NextDate \/ Switch \/ nextMonthly \/ nextMonthlyPhase1 \/ nextMonthlyPhase2

Next ==
    \/ NextDate
    \/ Switch
    \/ nextDaily
    \/ nextDailyLoop
    \/ nextYearly
    \/ nextWeekly
    \/ nextMonthly
    \/ nextMonthlyPhase1
    \/ nextMonthlyPhase2

Init == InitParse

Spec == Init /\ [][Next]_vars
SpecDaily == InitDaily /\ [][NextDaily]_vars
SpecYearly == InitYearly /\ [][NextYearly]_vars
SpecWeekly == InitWeekly /\ [][NextWeekly]_vars
SpecMonthly == InitMonthly /\ [][NextMonthly]_vars

-----------------------------------------------------------------------------
(* Two concurrent calls.  Each call owns its arguments and its locals (they *)
(* live in the frames of NextDate and of the resolver it runs); the calls   *)
(* share the package-level variables only.  One call is running, the frame  *)
(* of the other is kept in "other" until its goroutine is scheduled.        *)

frame ==
    [now |-> now, dStart |-> dStart, repeat |-> repeat, pc |-> pc,
     startDate |-> startDate, days |-> days, monthDaysInt |-> monthDaysInt,
     monthsInt |-> monthsInt, baseTime |-> baseTime, monthDays |-> monthDays,
     idx |-> idx, steps |-> steps, ret |-> ret]

newCall(rep, ds, n) ==
    [noCall EXCEPT !.repeat = rep, !.dStart = ds, !.now = n, !.pc = "NextDate"]

\* variant: baseTime is a package-level variable, so the scheduled call goes
\* on with the value the other call left in it
switchTo_sharedBaseTime(f) ==
    /\ now' = f.now /\ dStart' = f.dStart /\ repeat' = f.repeat /\ pc' = f.pc
    /\ startDate' = f.startDate /\ days' = f.days
    /\ monthDaysInt' = f.monthDaysInt /\ monthsInt' = f.monthsInt
    /\ baseTime' = baseTime /\ monthDays' = f.monthDays
    /\ idx' = f.idx /\ steps' = f.steps /\ ret' = f.ret

(* the goroutine that owns frame f goes on *)
switchTo(f) ==
    /\ now' = f.now /\ dStart' = f.dStart /\ repeat' = f.repeat /\ pc' = f.pc
    /\ startDate' = f.startDate /\ days' = f.days
    /\ monthDaysInt' = f.monthDaysInt /\ monthsInt' = f.monthsInt
    /\ baseTime' = f.baseTime /\ monthDays' = f.monthDays
    /\ idx' = f.idx /\ steps' = f.steps /\ ret' = f.ret

(* the scheduler switches to the other call, at any point of the running one *)
Yield ==
    /\ other.pc # "done"
    /\ other' = frame
    /\ switchTo(other)
    /\ UNCHANGED <<pkgAllMonths, db, clock, auth, resp, conn, prog, inflight>>

ConcurrentCalls ==
    { <<MonthlyRule(<<-1>>, <<>>), Date(2024, 1, 1), At(Date(2024, 2, 15), 1)>>,
      <<MonthlyRule(<<31>>, <<>>), Date(2024, 4, 1), At(Date(2024, 4, 10), 0)>>,
      <<MonthlyRule(<<15, -1, 15>>, <<6, 3>>), Date(2025, 1, 10), At(Date(2024, 12, 31), 1)>>,
      <<MonthlyRule(<<31>>, <<4, 6, 9, 11>>), Date(2024, 1, 1), At(Date(2024, 2, 15), 0)>>,
      <<WeeklyRule(<<1, 3>>), Date(2024, 3, 4), At(Date(2024, 3, 4), 0)>>,
      <<DailyRule(3), Date(2024, 3, 1), At(Date(2024, 3, 5), 1)>>,
      <<<<"y">>, Date(2024, 2, 29), At(Date(2025, 3, 1), 0)>>,
      <<<<" ">>, Date(2024, 3, 1), At(Date(2024, 3, 5), 0)>> }

InitConcurrent ==
    \E a \in ConcurrentCalls, b \in ConcurrentCalls :
        /\ InitFrame(a[1], Format(a[2]), a[3])
        /\ other = newCall(b[1], Format(b[2]), b[3])

NextConcurrent == Next \/ Yield

SpecConcurrent == InitConcurrent /\ [][NextConcurrent]_vars

(* one call on any of the inputs above *)
InitAll == InitParse \/ InitDaily \/ InitYearly \/ InitWeekly \/ InitMonthly
SpecAll == InitAll /\ [][Next]_vars

-----------------------------------------------------------------------------
(* The server around the engine: configuration, authentication, the task   *)
(* table and the handlers.  A request is served by one action; an open     *)
(* database is taken to execute every statement it is given, a closed one  *)
(* to refuse it.                                                           *)

(* hex(sha512(p)), taken to be free of collisions *)
sha512hex(p) == <<"#">> \o p

(* config.New: the Auth built from TODO_PASSWORD and TODO_SECRETKEY, or the *)
(* error that makes main return before the server starts                   *)
configNew(password, secretKey) ==
    IF password # <<>> /\ secretKey = <<>> THEN [ok |-> FALSE, Auth |-> noAuth]
    ELSE [ok |-> TRUE,
          Auth |-> [Password |-> password,
                    PasswordHash |-> IF password # <<>> THEN sha512hex(password) ELSE <<>>,
                    SecretKey |-> secretKey]]

(* A token string, by what jwt.ParseWithClaims finds in it: whether it has *)
(* the shape of a JWT, the alg of its header, the key its signature was      *)
(* made with, its exp claim (noExp when absent) and its pass_hash claim      *)
noExp == [day |-> -1, tod |-> 0]
token(alg, key, exp, passHash) ==
    [jwt |-> TRUE, alg |-> alg, key |-> key, exp |-> exp, PassHash |-> passHash]
notAToken == [jwt |-> FALSE, alg |-> "", key |-> <<>>, exp |-> noExp, PassHash |-> <<>>]
noCookie == [jwt |-> FALSE, alg |-> "absent", key |-> <<>>, exp |-> noExp, PassHash |-> <<>>]

(* createToken at the instant n; TokenTTL is eight hours, so the token of a *)
(* request made in the daytime expires the same day or the next            *)
createToken(a, n) == token("HS256", a.SecretKey, Plus(n, 1), a.PasswordHash)

\* variant: the pass_hash claim is not compared
validateToken_anyHash(tokenString, passwordHash, secretKey) ==
    IF ~tokenString.jwt THEN "failed to parse token"
    ELSE IF tokenString.alg \notin {"HS256", "HS384", "HS512"} THEN "failed to parse token"
    ELSE IF tokenString.key # secretKey THEN "failed to parse token"
    ELSE IF tokenString.exp # noExp /\ Before(tokenString.exp, clock)
    THEN "failed to parse token"
    ELSE "nil"

(* validateToken: the key function admits HMAC methods only, the signature  *)
(* is verified with secretKey, an exp claim that has passed makes the token *)
(* invalid, and then pass_hash is compared                                  *)
validateToken(tokenString, passwordHash, secretKey) ==
    IF ~tokenString.jwt THEN "failed to parse token"
    ELSE IF tokenString.alg \notin {"HS256", "HS384", "HS512"} THEN "failed to parse token"
    ELSE IF tokenString.key # secretKey THEN "failed to parse token"
    ELSE IF tokenString.exp # noExp /\ Before(tokenString.exp, clock)
    THEN "failed to parse token"
    ELSE IF tokenString.PassHash # passwordHash THEN "invalid password hash"
    ELSE "nil"

Resp(status, error) == [status |-> status, error |-> error]
OK200 == Resp(200, "")

(* withAuth: the response that ends the request, or status 0 when the next *)
(* handler is called                                                       *)
withAuth(cookie) ==
    IF auth.Password # <<>>
    THEN IF cookie = noCookie THEN Resp(401, "authentication required")
         ELSE IF Len(auth.SecretKey) = 0 THEN Resp(500, "server configuration error")
         ELSE IF validateToken(cookie, auth.PasswordHash, auth.SecretKey) # "nil"
         THEN Resp(401, "invalid JWT token")
         ELSE Resp(0, "")
    ELSE Resp(0, "")

(* failWithTaskError *)
failWithTaskError(err) ==
    IF err = "ErrTaskNotFound" THEN Resp(404, err)
    ELSE IF err = "ErrEmptyID" THEN Resp(400, err)
    ELSE Resp(500, "internal server error")

(* database/sql: what Query and Exec return once the DB has been closed *)
errDBClosed == "sql: database is closed"

(* the rows WHERE id = :id selects *)
rowsOf(id) == {t \in db.scheduler : Itoa(t.ID) = id}

(* db.GetTask *)
GetTask(id) ==
    IF id = <<>> THEN [err |-> "ErrEmptyID", task |-> {}]
    ELSE IF conn # "open" THEN [err |-> errDBClosed, task |-> {}]
    ELSE IF rowsOf(id) = {} THEN [err |-> "ErrTaskNotFound", task |-> {}]
    ELSE [err |-> "nil", task |-> CHOOSE t \in rowsOf(id) : TRUE]

(* db.UpdateTask, db.UpdateDate, db.DeleteTask, db.AddTask: the error and   *)
(* the table the statement leaves                                          *)
UpdateTask(task) ==
    IF task.ID = <<>> THEN [err |-> "ErrEmptyID", db |-> db]
    ELSE IF conn # "open" THEN [err |-> errDBClosed, db |-> db]
    ELSE IF Cardinality(rowsOf(task.ID)) # 1 THEN [err |-> "ErrTaskNotFound", db |-> db]
    ELSE [err |-> "nil",
          db |-> [db EXCEPT !.scheduler =
                     (db.scheduler \ rowsOf(task.ID))
                         \cup {[t EXCEPT !.Date = task.Date, !.Title = task.Title,
                                         !.Comment = task.Comment, !.Repeat = task.Repeat]
                                  : t \in rowsOf(task.ID)}]]

\* variant: the statement also clears the repeat column
UpdateDate_clearsRepeat(id, nextDate) ==
    IF id = <<>> THEN [err |-> "ErrEmptyID", db |-> db]
    ELSE IF conn # "open" THEN [err |-> errDBClosed, db |-> db]
    ELSE IF Cardinality(rowsOf(id)) # 1 THEN [err |-> "ErrTaskNotFound", db |-> db]
    ELSE [err |-> "nil",
          db |-> [db EXCEPT !.scheduler =
                     (db.scheduler \ rowsOf(id))
                         \cup {[t EXCEPT !.Date = nextDate, !.Repeat = <<>>]
                                  : t \in rowsOf(id)}]]

UpdateDate(id, nextDate) ==
    IF id = <<>> THEN [err |-> "ErrEmptyID", db |-> db]
    ELSE IF conn # "open" THEN [err |-> errDBClosed, db |-> db]
    ELSE IF Cardinality(rowsOf(id)) # 1 THEN [err |-> "ErrTaskNotFound", db |-> db]
    ELSE [err |-> "nil",
          db |-> [db EXCEPT !.scheduler =
                     (db.scheduler \ rowsOf(id))
                         \cup {[t EXCEPT !.Date = nextDate] : t \in rowsOf(id)}]]

DeleteTask(id) ==
    IF id = <<>> THEN [err |-> "ErrEmptyID", db |-> db]
    ELSE IF conn # "open" THEN [err |-> errDBClosed, db |-> db]
    ELSE IF Cardinality(rowsOf(id)) # 1 THEN [err |-> "ErrTaskNotFound", db |-> db]
    ELSE [err |-> "nil", db |-> [db EXCEPT !.scheduler = db.scheduler \ rowsOf(id)]]

(* AUTOINCREMENT: the new id is one more than the largest ever given *)
AddTask(task) ==
    IF conn # "open" THEN [err |-> errDBClosed, id |-> 0, db |-> db]
    ELSE [err |-> "nil", id |-> db.seq + 1,
          db |-> [scheduler |-> db.scheduler \cup {[task EXCEPT !.ID = db.seq + 1]},
                  seq |-> db.seq + 1]]

(* db.Init, part_000:241-275, on a file that is "absent", "present" or    *)
(* "unreadable" (os.Stat fails otherwise than with ErrNotExist), with the *)
(* outcomes of sql.Open, of db.Exec(schema) and of db.Ping: the error     *)
(* returned, the DB left in the package variable and the file left on disk. *)
(* The deferred function closes the DB unless success was set, and success *)
(* is set on the last line only.                                          *)
dbInit(dbFile, openOk, execOk, pingOk) ==
    LET needCreateDB == dbFile = "absent"
        deferred(success) == IF success THEN "open" ELSE "closed"
    IN  IF dbFile = "unreadable"
        THEN [err |-> "error checking database file", conn |-> "nil", dbFile |-> dbFile]
        ELSE IF ~openOk
        THEN [err |-> "error opening database", conn |-> "nil", dbFile |-> dbFile]
        ELSE IF needCreateDB
        THEN IF ~execOk
             THEN [err |-> "error applying database schema", conn |-> deferred(FALSE),
                   dbFile |-> dbFile]
             ELSE [err |-> "nil", conn |-> deferred(FALSE), dbFile |-> "present"]
        ELSE IF ~pingOk
        THEN [err |-> "error accessing database", conn |-> deferred(FALSE),
              dbFile |-> dbFile]
        ELSE [err |-> "nil", conn |-> deferred(TRUE), dbFile |-> dbFile]

\* variant: a date in the past is kept when the task has a rule
validateTask_keepsPast(task) ==
    IF task.Title = <<>> THEN [err |-> "title is required", task |-> task]
    ELSE LET today == Format(midnight(clock))
             t1 == IF task.Date = <<>> THEN [task EXCEPT !.Date = today] ELSE task
             parsedDate == Parse(t1.Date)
             next == IF t1.Repeat # <<>>
                     THEN NextDateCall(midnight(clock), t1.Date, t1.Repeat)
                     ELSE [date |-> <<>>, err |-> "nil"]
         IN  IF ~parsedDate.ok THEN [err |-> "invalid date format", task |-> t1]
             ELSE IF next.err # "nil" THEN [err |-> next.err, task |-> t1]
             ELSE IF Before(parsedDate.t, midnight(clock)) /\ t1.Repeat = <<>>
             THEN [err |-> "nil", task |-> [t1 EXCEPT !.Date = today]]
             ELSE [err |-> "nil", task |-> t1]

(* validateTask: the error, and the task as the handler goes on with it *)
validateTask(task) ==
    IF task.Title = <<>> THEN [err |-> "title is required", task |-> task]
    ELSE LET today == Format(midnight(clock))
             t1 == IF task.Date = <<>> THEN [task EXCEPT !.Date = today] ELSE task
             parsedDate == Parse(t1.Date)
             next == IF t1.Repeat # <<>>
                     THEN NextDateCall(midnight(clock), t1.Date, t1.Repeat)
                     ELSE [date |-> <<>>, err |-> "nil"]
         IN  IF ~parsedDate.ok THEN [err |-> "invalid date format", task |-> t1]
             ELSE IF next.err # "nil" THEN [err |-> next.err, task |-> t1]
             ELSE IF Before(parsedDate.t, midnight(clock))
             THEN [err |-> "nil",
                   task |-> [t1 EXCEPT !.Date = IF t1.Repeat # <<>> THEN next.date
                                                ELSE today]]
             ELSE [err |-> "nil", task |-> t1]

(* the request req to a route is answered and the table is left as d *)
answer(route, req, r, body, d) ==
    /\ resp' = [route |-> route, req |-> req, status |-> r.status, error |-> r.error,
                body |-> body]
    /\ db' = d
    /\ UNCHANGED <<callVars, pkgAllMonths, other, clock, auth, conn, prog, inflight>>

(* the routes registered behind withAuth: h runs when withAuth calls next *)
behindAuth(route, req, cookie, h) ==
    IF withAuth(cookie).status # 0 THEN answer(route, req, withAuth(cookie), nothing, db)
    ELSE h

(* signInHandler, internal/api/auth.go:29-70 *)
signInHandler(json, password) ==
    LET re(r, body) == answer("signin", payload("signin", <<json, password>>), r, body, db)
    IN  IF auth.Password = <<>> \/ Len(auth.SecretKey) = 0
        THEN re(Resp(500, "server configuration error"), nothing)
        ELSE IF ~json THEN re(Resp(400, "JSON deserialization failed"), nothing)
        ELSE IF auth.Password # password THEN re(Resp(401, "incorrect password"), nothing)
        ELSE re(OK200, payload("token", createToken(auth, clock)))

(* nextDateHandler *)
nextDateHandler(date, rep, nowStr) ==
    LET re(r, body) ==
            answer("nextdate", payload("nextdate", <<date, rep, nowStr>>), r, body, db)
    IN  IF nowStr # <<>> /\ ~Parse(nowStr).ok
        THEN re(Resp(400, "invalid 'now' parameter"), nothing)
        ELSE \E r \in {NextDateCall(IF nowStr = <<>> THEN clock ELSE Parse(nowStr).t,
                                     date, rep)} :
                 IF r.err # "nil"
                 THEN re(Resp(400, "failed to compute the new date"), nothing)
                 ELSE re(OK200, payload("text", r.date))

(* tasksHandler with an empty search string, and taskHandler *)
tasksHandler(cookie) ==
    behindAuth("tasks", nothing, cookie,
        IF conn # "open"
        THEN answer("tasks", nothing, failWithTaskError(errDBClosed), nothing, db)
        ELSE answer("tasks", nothing, OK200, payload("tasks", db.scheduler), db))

taskHandler(cookie, id) ==
    LET re(r, body) == answer("task", payload("id", id), r, body, db)
    IN  behindAuth("task", payload("id", id), cookie,
            \E g \in {GetTask(id)} :
                IF g.err # "nil" THEN re(failWithTaskError(g.err), nothing)
                ELSE re(OK200, payload("task", g.task)))

(* addTaskHandler *)
addTaskHandler(cookie, json, task) ==
    LET re(r, body, d) == answer("add", payload("body", <<json, task>>), r, body, d)
    IN  behindAuth("add", payload("body", <<json, task>>), cookie,
            IF ~json THEN re(Resp(400, "JSON deserialization failed"), nothing, db)
            ELSE \E v \in {validateTask(task)} :
                     IF v.err # "nil" THEN re(Resp(400, v.err), nothing, db)
                     ELSE \E a \in {AddTask(v.task)} :
                              IF a.err # "nil" THEN re(failWithTaskError(a.err), nothing, db)
                              ELSE re(OK200, payload("id", Itoa(a.id)), a.db))

(* updateHandler *)
updateHandler(cookie, json, task) ==
    LET re(r, d) == answer("update", payload("body", <<json, task>>), r, nothing, d)
    IN  behindAuth("update", payload("body", <<json, task>>), cookie,
            IF ~json THEN re(Resp(400, "JSON deserialization failed"), db)
            ELSE \E v \in {validateTask(task)} :
                     IF v.err # "nil" THEN re(Resp(400, v.err), db)
                     ELSE \E u \in {UpdateTask(v.task)} :
                              IF u.err # "nil" THEN re(failWithTaskError(u.err), db)
                              ELSE re(OK200, u.db))

(* deleteTask *)
deleteTask(cookie, id) ==
    LET re(r, d) == answer("delete", payload("id", id), r, nothing, d)
    IN  behindAuth("delete", payload("id", id), cookie,
            \E d \in {DeleteTask(id)} :
                IF d.err # "nil" THEN re(failWithTaskError(d.err), db)
                ELSE re(OK200, d.db))

(* taskDoneHandler *)
taskDoneHandler(cookie, id) ==
    LET re(r, d) == answer("done", payload("id", id), r, nothing, d)
    IN  behindAuth("done", payload("id", id), cookie,
            \E g \in {GetTask(id)} :
                IF g.err # "nil" THEN re(failWithTaskError(g.err), db)
                ELSE IF g.task.Repeat = <<>>
                THEN \E d \in {DeleteTask(id)} :
                         IF d.err # "nil" THEN re(failWithTaskError(d.err), db)
                         ELSE re(OK200, d.db)
                ELSE \E n \in {NextDateCall(clock, g.task.Date, g.task.Repeat)} :
                         IF n.err # "nil"
                         THEN re(Resp(400, "failed to compute the new date"), db)
                         ELSE \E u \in {UpdateDate(id, n.date)} :
                                  IF u.err # "nil" THEN re(failWithTaskError(u.err), db)
                                  ELSE re(OK200, u.db))

(* Requests.  The server starts on AppDay0 with an empty table; the clock   *)
(* is read in the daytime and moves a day at a time; at most MaxTasks tasks *)
(* are ever added, and done is asked for tasks dated at most MaxAhead days  *)
(* ahead.                                                                   *)
AppDay0 == Date(2024, 2, 27)
MaxTicks == 1
MaxTasks == 1
MaxAhead == 3

thePassword == <<"p", "w">>
oldPassword == <<"o", "l", "d">>
theKey == <<"k">>
otherKey == <<"x">>

(* TODO_PASSWORD and TODO_SECRETKEY as the operator may set them *)
Environments == {<<<<>>, <<>>>>, <<thePassword, theKey>>, <<thePassword, <<>>>>}

(* what a client may send as the token cookie: nothing, garbage, the token  *)
(* of a sign-in of today or of yesterday, a token signed with another key,  *)
(* an unsigned one, one of a non-HMAC method, one without exp, and one that *)
(* carries the hash of an earlier password; to a server without password,   *)
(* nothing or garbage                                                       *)
Cookies ==
    IF auth.Password = <<>> THEN {noCookie, notAToken}
    ELSE
    {noCookie, notAToken,
     createToken(auth, clock),
     createToken(auth, Plus(clock, -1)),
     token("HS256", otherKey, Plus(clock, 1), auth.PasswordHash),
     token("none", <<>>, Plus(clock, 1), auth.PasswordHash),
     token("RS256", auth.SecretKey, Plus(clock, 1), auth.PasswordHash),
     token("HS512", auth.SecretKey, noExp, auth.PasswordHash),
     token("HS256", auth.SecretKey, Plus(clock, 1), sha512hex(oldPassword))}

(* the cookies sent with the requests that carry a task *)
FewCookies ==
    IF auth.Password = <<>> THEN {noCookie}
    ELSE {noCookie, createToken(auth, clock),
          token("HS256", otherKey, Plus(clock, 1), auth.PasswordHash)}

badDate == <<"2", "0", "2", "4", "0", "2", "3", "0">>
S_m29_2 == MonthlyRule(<<29>>, <<2>>)
AppIds == {<<>>} \cup {Itoa(i) : i \in 1..MaxTasks}
noBody == [ID |-> <<>>, Date |-> <<>>, Title |-> <<>>, Comment |-> <<>>, Repeat |-> <<>>]
(* the tasks a client sends: dated yesterday, today, tomorrow, not dated or *)
(* with an impossible date; with no rule, a rule for 29 February or an     *)
(* unsupported rule; or without title                                      *)
Bodies(ids) ==
    {[ID |-> i, Date |-> d, Title |-> <<"t">>, Comment |-> <<"c">>, Repeat |-> r] :
        i \in ids,
        d \in {<<>>, Format(Plus(clock, -1)), Format(clock), Format(Plus(clock, 1)), badDate},
        r \in {<<>>, S_m29_2, <<"x">>}}
        \cup {[ID |-> i, Date |-> <<>>, Title |-> <<>>, Comment |-> <<"c">>, Repeat |-> <<>>] :
                 i \in ids}

InitApp ==
    /\ \E e \in Environments :
           /\ configNew(e[1], e[2]).ok
           /\ auth = configNew(e[1], e[2]).Auth
    /\ db = emptyDb
    /\ clock = At(AppDay0, 1)
    /\ resp = noResp
    /\ conn = "open"
    /\ prog = serving
    /\ inflight = noRequests
    /\ pkgAllMonths = allMonths
    /\ other = noCall
    /\ now = noCall.now /\ dStart = noCall.dStart /\ repeat = noCall.repeat
    /\ pc = noCall.pc /\ startDate = noCall.startDate /\ days = noCall.days
    /\ monthDaysInt = noCall.monthDaysInt /\ monthsInt = noCall.monthsInt
    /\ baseTime = noCall.baseTime /\ monthDays = noCall.monthDays
    /\ idx = noCall.idx /\ steps = noCall.steps /\ ret = noCall.ret

Tick ==
    /\ clock.day < AppDay0.day + MaxTicks
    /\ clock' = [clock EXCEPT !.day = clock.day + 1]
    /\ UNCHANGED <<callVars, pkgAllMonths, other, db, auth, resp, conn, prog, inflight>>

(* the routes, internal/api Init: one request is served at a time *)
NextApp ==
    \/ Tick
    \/ \E json \in BOOLEAN, password \in {<<>>, thePassword, oldPassword} :
           signInHandler(json, password)
    \/ \E date \in {Format(clock), badDate},
          nowStr \in {<<>>, badDate, Format(Plus(clock, 1))} :
           nextDateHandler(date, S_m29_2, nowStr)
    \/ \E cookie \in Cookies : tasksHandler(cookie)
    \/ \E cookie \in Cookies, id \in AppIds : taskHandler(cookie, id)
    \/ /\ db.seq < MaxTasks
       /\ \E cookie \in FewCookies, json \in BOOLEAN :
              \E task \in (IF json /\ withAuth(cookie).status = 0 THEN Bodies({<<>>})
                            ELSE {noBody}) :
                  addTaskHandler(cookie, json, task)
    \/ \E cookie \in FewCookies, json \in BOOLEAN :
           \E task \in (IF json /\ withAuth(cookie).status = 0
                         THEN Bodies(AppIds \ {<<>>}) \cup {[noBody EXCEPT !.Title = <<"t">>]}
                         ELSE {noBody}) :
               updateHandler(cookie, json, task)
    \/ \E cookie \in Cookies, id \in AppIds : deleteTask(cookie, id)
    \/ \E cookie \in Cookies, id \in AppIds :
           /\ \A t \in rowsOf(id) : Parse(t.Date).t.day <= clock.day + MaxAhead
           /\ taskDoneHandler(cookie, id)

SpecApp == InitApp /\ [][NextApp]_vars

(* The start of the program, cmd/go-todo/main.go:15-42: config.New has     *)
(* succeeded, db.Init is about to be called on a database file that may or *)
(* may not be there                                                        *)
InitStart ==
    /\ \E e \in Environments :
           /\ configNew(e[1], e[2]).ok
           /\ auth = configNew(e[1], e[2]).Auth
    /\ db = emptyDb
    /\ clock = At(AppDay0, 1)
    /\ resp = noResp
    /\ conn = "nil"
    /\ \E f \in {"absent", "present", "unreadable"} :
           prog = [pc |-> "Init", dbFile |-> f, err |-> "nil"]
    /\ inflight = noRequests
    /\ pkgAllMonths = allMonths
    /\ other = noCall
    /\ now = noCall.now /\ dStart = noCall.dStart /\ repeat = noCall.repeat
    /\ pc = noCall.pc /\ startDate = noCall.startDate /\ days = noCall.days
    /\ monthDaysInt = noCall.monthDaysInt /\ monthsInt = noCall.monthsInt
    /\ baseTime = noCall.baseTime /\ monthDays = noCall.monthDays
    /\ idx = noCall.idx /\ steps = noCall.steps /\ ret = noCall.ret

(* main.go:26-30: main calls db.Init and returns when it fails; otherwise *)
(* the server is started                                                  *)
main ==
    /\ prog.pc = "Init"
    /\ \E openOk, execOk, pingOk \in BOOLEAN :
           \E r \in {dbInit(prog.dbFile, openOk, execOk, pingOk)} :
               /\ conn' = r.conn
               /\ prog' = [pc |-> IF r.err = "nil" THEN "Run" ELSE "return",
                           dbFile |-> r.dbFile, err |-> r.err]
    /\ UNCHANGED <<callVars, pkgAllMonths, other, db, clock, auth, resp, inflight>>

(* srv.Run: requests are served once main has reached it *)
Run == prog.pc = "Run" /\ NextApp

NextStart == main \/ Run

SpecStart == InitStart /\ [][NextStart]_vars

(* taskDoneHandler as it runs next to other requests, part_001:157-189:    *)
(* every request is served on a goroutine of its own, and between          *)
(* db.GetTask and the statement that writes, the other goroutines run.     *)
(* A request in flight: its position, its id parameter, the local task and *)
(* the status written (0 until then).                                      *)
Goroutines == {1, 2}
newDone(id) ==
    [pc |-> "GetTask", id |-> id, task |-> [noBody EXCEPT !.ID = 0], status |-> 0]

(* lines 160-165 *)
doneGetTask(p) ==
    /\ inflight[p].pc = "GetTask"
    /\ \E g \in {GetTask(inflight[p].id)} :
           inflight' = [inflight EXCEPT ![p] =
               IF g.err # "nil"
               THEN [@ EXCEPT !.pc = "done", !.status = failWithTaskError(g.err).status]
               ELSE [@ EXCEPT !.pc = "write", !.task = g.task]]
    /\ UNCHANGED <<callVars, pkgAllMonths, other, db, clock, auth, resp, conn, prog>>

(* lines 167-188: DeleteTask, or NextDate and UpdateDate, on the local task *)
doneWrite(p) ==
    /\ inflight[p].pc = "write"
    /\ LET id == inflight[p].id
           task == inflight[p].task
           re(status, d) ==
               /\ inflight' = [inflight EXCEPT ![p] =
                                  [@ EXCEPT !.pc = "done", !.status = status]]
               /\ db' = d
       IN  IF task.Repeat = <<>>
           THEN \E d \in {DeleteTask(id)} :
                    IF d.err # "nil" THEN re(failWithTaskError(d.err).status, db)
                    ELSE re(200, d.db)
           ELSE \E n \in {NextDateCall(clock, task.Date, task.Repeat)} :
                    IF n.err # "nil" THEN re(400, db)
                    ELSE \E u \in {UpdateDate(id, n.date)} :
                             IF u.err # "nil" THEN re(failWithTaskError(u.err).status, db)
                             ELSE re(200, u.db)
    /\ UNCHANGED <<callVars, pkgAllMonths, other, clock, auth, resp, conn, prog>>

(* the task stored when the two requests arrive: dated yesterday, today or  *)
(* tomorrow, recurring or not                                              *)
DoneRules ==
    {DailyRule(1), DailyRule(3), <<"y">>, WeeklyRule(<<1, 3>>), MonthlyRule(<<1>>, <<>>),
     <<>>}
DoneTasks ==
    {[ID |-> 1, Date |-> Format(Plus(At(AppDay0, 1), g)), Title |-> <<"t">>,
      Comment |-> <<>>, Repeat |-> r] : g \in -1..1, r \in DoneRules}

(* two done requests, for the stored task or for a task that is not there, *)
(* have passed withAuth on a server without password                       *)
InitDone ==
    /\ auth = configNew(<<>>, <<>>).Auth
    /\ \E t \in DoneTasks : db = [scheduler |-> {t}, seq |-> 1]
    /\ \E ids \in [Goroutines -> {Itoa(1), Itoa(2)}] :
           inflight = [p \in Goroutines |-> newDone(ids[p])]
    /\ clock = At(AppDay0, 1)
    /\ resp = noResp
    /\ conn = "open"
    /\ prog = serving
    /\ pkgAllMonths = allMonths
    /\ other = noCall
    /\ now = noCall.now /\ dStart = noCall.dStart /\ repeat = noCall.repeat
    /\ pc = noCall.pc /\ startDate = noCall.startDate /\ days = noCall.days
    /\ monthDaysInt = noCall.monthDaysInt /\ monthsInt = noCall.monthsInt
    /\ baseTime = noCall.baseTime /\ monthDays = noCall.monthDays
    /\ idx = noCall.idx /\ steps = noCall.steps /\ ret = noCall.ret

(* the scheduler lets any of the goroutines take its next step *)
NextDone ==
    \/ \E p \in Goroutines : doneGetTask(p)
    \/ \E p \in Goroutines : doneWrite(p)

SpecDone == InitDone /\ [][NextDone]_vars

-----------------------------------------------------------------------------
(* Properties *)

Done == pc = "done"
Succeeded == Done /\ ret.err = "nil"

(* the inputs and the result, read back from the strings *)
InStart == Parse(TrimSpace(dStart)).t
Result == Parse(ret.date).t
Max(a, b) == IF a >= b THEN a ELSE b

(* the interval of a rule of the form "d n" *)
DailyN == DigitsVal(SubSeq(repeat, 3, Len(repeat)))

\* C1: for a rule "d n" with n in 1..400 the call succeeds and returns
\* start + k*n days for the smallest k >= 1 that is strictly after
\* midnight(now): k = max(1, floor((now - start) / n) + 1).
C1_DailySmallestStep ==
    (Done /\ reDay(repeat) /\ DailyN \in 1..400) =>
        /\ ret.err = "nil"
        /\ Parse(ret.date).ok
        /\ Result.day
             = InStart.day + DailyN * Max(1, ((now.day - InStart.day) \div DailyN) + 1)
        /\ Result.day > now.day
        /\ Result.day > InStart.day

\* C1 witness: a call with rule "d 3" whose start was before now has
\* returned after four steps
C1_Witness ==
    Succeeded /\ reDay(repeat) /\ DailyN = 3 /\ steps = 4 /\ InStart.day < now.day

S_d3 == <<"d", " ", "3">>
S_20240301 == <<"2", "0", "2", "4", "0", "3", "0", "1">>
S_20240306 == <<"2", "0", "2", "4", "0", "3", "0", "6">>
S_20240307 == <<"2", "0", "2", "4", "0", "3", "0", "7">>

C2_Scenario == repeat = S_d3 /\ dStart = S_20240301 /\ now = Date(2024, 3, 5)

\* C2 as stated: rule "d 3", start 20240301, now 20240305 returns 20240306
C2_Original == (Done /\ C2_Scenario) => ret = [date |-> S_20240306, err |-> "nil"]

\* C2 amended: rule "d 3", start 20240301, now 20240305 returns 20240307
\* (20240301 + 3 = 20240304 is not after now, 20240304 + 3 = 20240307 is)
C2_DailyScenario == (Done /\ C2_Scenario) => ret = [date |-> S_20240307, err |-> "nil"]

\* C2 witness: the scenario's call has returned
C2_Witness == Done /\ C2_Scenario /\ steps = 2

-----------------------------------------------------------------------------
(* Weekly *)

(* the weekday set of a rule of the form "w d,..." *)
WeekSet == {DigitVal(repeat[i]) : i \in {j \in 3..Len(repeat) : j % 2 = 1}}

(* ISO weekday of a day number: day 0 (0001-01-01) is a Monday *)
IsoOfDay(n) == (n % 7) + 1

(* the day the weekly and monthly searches start from *)
BaseDay == IF InStart.day > now.day THEN InStart.day ELSE now.day

S_w13 == <<"w", " ", "1", ",", "3">>
S_20240304 == <<"2", "0", "2", "4", "0", "3", "0", "4">>

\* C3: for a rule "w ..." whose weekdays W are all in 1..7 the call succeeds
\* and returns the earliest date strictly after base time whose ISO weekday
\* is in W; it lies 1..7 days after base time, so never on base time's own
\* day; "w 1,3" with start = now = 20240304 (a Monday) returns 20240306.
C3_WeeklyEarliestLater ==
    (Done /\ reWeek(repeat) /\ WeekSet \subseteq 1..7) =>
        /\ ret.err = "nil"
        /\ Parse(ret.date).ok
        /\ Result.day - BaseDay \in 1..7
        /\ IsoOfDay(Result.day) \in WeekSet
        /\ \A n \in (BaseDay + 1)..(Result.day - 1) : IsoOfDay(n) \notin WeekSet
        /\ (repeat = S_w13 /\ dStart = S_20240304 /\ now = Date(2024, 3, 4))
               => ret.date = S_20240306

\* C3 witness: "w 1,3" with start = now = Monday 20240304 has returned
\* Wednesday 20240306
C3_Witness ==
    /\ Succeeded /\ repeat = S_w13 /\ dStart = S_20240304 /\ now = Date(2024, 3, 4)
    /\ IsoOfDay(BaseDay) = 1
    /\ ret.date = S_20240306

-----------------------------------------------------------------------------
(* Monthly *)

Range(q) == {q[i] : i \in 1..Len(q)}

(* the day specs and the months of a rule of the form "m d,... [m,...]" *)
RuleParts == Split(repeat, " ")
RuleDaySpecs == {Atoi(x).val : x \in Range(Split(RuleParts[2], ","))}
RuleMonths ==
    IF Len(RuleParts) = 3
    THEN {Atoi(x).val : x \in Range(Split(RuleParts[3], ","))}
    ELSE 1..12
MonthlyValid ==
    /\ reMonth(repeat)
    /\ RuleDaySpecs \subseteq ({-2, -1} \cup (1..31))
    /\ RuleMonths \subseteq 1..12

(* the calendar, stated directly *)
MonthLen(y, m) ==
    IF m \in {4, 6, 9, 11} THEN 30
    ELSE IF m # 2 THEN 31
    ELSE IF (y % 4 = 0 /\ y % 100 # 0) \/ y % 400 = 0 THEN 29 ELSE 28

(* a day spec resolved for a month: -1 its last day, -2 the day before *)
ResolveSpec(d, y, m) == IF d < 0 THEN MonthLen(y, m) + 1 + d ELSE d
ResolvedSet(y, m) == {ResolveSpec(d, y, m) : d \in RuleDaySpecs}

(* year, month and day of the returned string and of base time *)
ResY == DigitsVal(SubSeq(ret.date, 1, 4))
ResM == DigitsVal(SubSeq(ret.date, 5, 6))
ResD == DigitsVal(SubSeq(ret.date, 7, 8))
BaseT == [day |-> BaseDay, tod |-> 0]
BaseY == Year(BaseT)
BaseM == Month(BaseT)
BaseD == Day(BaseT)

Ascending(q) == \A i \in 1..(Len(q) - 1) : q[i] < q[i + 1]

\* C4: a successful call with an "m" rule returns a date whose month is in
\* the rule's month set (all twelve when omitted), whose day is one of the
\* rule's day specs resolved for the returned year and month, and which is
\* strictly after midnight(now).
C4_MonthlyResultMatchesRule ==
    (Succeeded /\ reMonth(repeat)) =>
        /\ Parse(ret.date).ok
        /\ ResM \in RuleMonths
        /\ ResD \in ResolvedSet(ResY, ResM)
        /\ ResD <= MonthLen(ResY, ResM)
        /\ Result.day > now.day

\* C4 witness: a rule with a negative day and no month group has returned a
\* date of the year after base time's
C4_Witness ==
    /\ Succeeded /\ reMonth(repeat)
    /\ Len(RuleParts) = 2 /\ RuleDaySpecs = {-2}
    /\ ResY = BaseY + 1

S_m31 == <<"m", " ", "3", "1">>
S_m31_46911 == <<"m", " ", "3", "1", " ", "4", ",", "6", ",", "9", ",", "1", "1">>
S_mLast == <<"m", " ", "-", "1">>
S_20240101 == <<"2", "0", "2", "4", "0", "1", "0", "1">>
S_20240229 == <<"2", "0", "2", "4", "0", "2", "2", "9">>

MinDaySpec == CHOOSE d \in RuleDaySpecs : \A e \in RuleDaySpecs : d <= e

\* C6: a requested day number beyond a candidate month's length is skipped
\* for that month: the result's day is one of the requested numbers (never
\* the clamped last day), no error is raised as long as a later listed month
\* of the year, or a listed month of the next year, has the day, and "m 31"
\* from a base date in April gives 31 May.
C6_OverflowSkippedNotClamped ==
    (Done /\ MonthlyValid /\ RuleDaySpecs \subseteq 1..31) =>
        /\ ret.err = "nil" => (ResD \in RuleDaySpecs /\ ResD <= MonthLen(ResY, ResM))
        /\ (\E m \in RuleMonths :
                \/ m > BaseM /\ MinDaySpec <= MonthLen(BaseY, m)
                \/ MinDaySpec <= MonthLen(BaseY + 1, m))
               => ret.err = "nil"
        /\ (repeat = S_m31 /\ BaseM = 4)
               => ret = [date |-> Pad(BaseY, 4) \o <<"0", "5", "3", "1">>, err |-> "nil"]

\* C6 witness: "m 31" from a base date in April has returned 31 May
C6_Witness == Succeeded /\ repeat = S_m31 /\ BaseM = 4 /\ ResM = 5 /\ ResD = 31

(* a requested day exists in the rest of base time's year / in the next year *)
MatchThisYear ==
    \E m \in RuleMonths, d \in RuleDaySpecs :
        /\ m >= BaseM
        /\ ResolveSpec(d, BaseY, m) \in 1..MonthLen(BaseY, m)
        /\ m = BaseM => ResolveSpec(d, BaseY, m) > BaseD
MatchNextYear ==
    \E m \in RuleMonths, d \in RuleDaySpecs :
        ResolveSpec(d, BaseY + 1, m) \in 1..MonthLen(BaseY + 1, m)

\* C7: a valid "m" rule fails with NoMatchingDay exactly when neither the
\* rest of base time's year nor any listed month of the next year has a
\* requested day, and succeeds otherwise; "m 31 4,6,9,11" always fails so.
C7_NoMatchingDayExactly ==
    (Done /\ MonthlyValid) =>
        /\ ret.err \in {"nil", "NoMatchingDay"}
        /\ ret.err = "NoMatchingDay" <=> ~(MatchThisYear \/ MatchNextYear)
        /\ repeat = S_m31_46911 => ret.err = "NoMatchingDay"

\* C7 witness: "m 31 4,6,9,11" has failed with NoMatchingDay after both loops
C7_Witness ==
    Done /\ repeat = S_m31_46911 /\ ret.err = "NoMatchingDay" /\ idx > Len(monthsInt)

(* the month the running loop is about to examine *)
LoopYear == IF pc = "phase1" THEN Year(baseTime) ELSE Year(baseTime) + 1
LoopMonth == monthsInt[idx]

\* C8: for every year and month the loops examine, computeLastMonthDay is
\* the month's length, -1 resolves to the last day and -2 to the day before
\* it, positive specs are kept, and the resolved list is ascending without
\* duplicates; the list a successful search used has these properties for
\* the returned year and month; "m -1" with start 20240101 and now 20240215
\* returns 20240229.
C8_ResolveDays ==
    /\ (pc \in {"phase1", "phase2"} /\ idx <= Len(monthsInt)) =>
           /\ computeLastMonthDay(LoopYear, LoopMonth) = MonthLen(LoopYear, LoopMonth)
           /\ resolveDays(<<lastDayOfMonth>>, LoopYear, LoopMonth)
                  = <<MonthLen(LoopYear, LoopMonth)>>
           /\ resolveDays(<<beforeLastDayOfMonth>>, LoopYear, LoopMonth)
                  = <<MonthLen(LoopYear, LoopMonth) - 1>>
           /\ Ascending(resolveDays(monthDaysInt, LoopYear, LoopMonth))
           /\ Range(resolveDays(monthDaysInt, LoopYear, LoopMonth))
                  = {ResolveSpec(d, LoopYear, LoopMonth) : d \in Range(monthDaysInt)}
    /\ (Succeeded /\ reMonth(repeat)) =>
           /\ Ascending(monthDays)
           /\ Range(monthDays) = ResolvedSet(ResY, ResM)
    /\ (Done /\ repeat = S_mLast /\ dStart = S_20240101 /\ now = Date(2024, 2, 15))
           => ret = [date |-> S_20240229, err |-> "nil"]

\* C8 witness: "m -1" with start 20240101 and now 20240215 has returned the
\* last day of February of the leap year 2024
C8_Witness ==
    /\ Succeeded /\ repeat = S_mLast /\ dStart = S_20240101 /\ now = Date(2024, 2, 15)
    /\ monthDays = <<29>>
    /\ ret.date = S_20240229

-----------------------------------------------------------------------------
(* Yearly *)

(* year, month and day of the start string *)
StartYMD ==
    LET t == TrimSpace(dStart)
    IN  <<DigitsVal(SubSeq(t, 1, 4)), DigitsVal(SubSeq(t, 5, 6)), DigitsVal(SubSeq(t, 7, 8))>>
ResYMD == <<ResY, ResM, ResD>>
DayOf(ymd) == Date(ymd[1], ymd[2], ymd[3]).day

(* the date k whole years after ymd: the same month and day k years later *)
(* (29 February of a year that has none is 1 March)                        *)
YearsLater(ymd, k) ==
    IF ymd[2] = 2 /\ ymd[3] = 29 /\ MonthLen(ymd[1] + k, 2) = 28
    THEN <<ymd[1] + k, 3, 1>>
    ELSE <<ymd[1] + k, ymd[2], ymd[3]>>

(* k successive steps of one year *)
RECURSIVE YearSteps(_, _)
YearSteps(ymd, k) == IF k = 0 THEN ymd ELSE YearsLater(YearSteps(ymd, k - 1), 1)

MaxYears == YearlyYears + YearlyStartYears + 1

\* C5 as stated: rule "y" returns start advanced by k whole years for the
\* smallest k >= 1 that places it strictly after midnight(now)
C5_Original ==
    (Done /\ repeat = <<"y">>) =>
        /\ ret.err = "nil"
        /\ \E k \in 1..MaxYears :
               /\ ResYMD = YearsLater(StartYMD, k)
               /\ DayOf(YearsLater(StartYMD, k)) > now.day
               /\ \A j \in 1..(k - 1) : DayOf(YearsLater(StartYMD, j)) <= now.day

\* C5 amended: rule "y" returns the date reached from start by k successive
\* one-year steps (a step from 29 February lands on 1 March of the next
\* year and later steps go on from 1 March) for the smallest k >= 1 that
\* places it strictly after midnight(now); when start is not 29 February
\* this is start advanced by k whole years.
C5_YearlySuccessiveSteps ==
    (Done /\ repeat = <<"y">>) =>
        /\ ret.err = "nil"
        /\ Parse(ret.date).ok
        /\ \E k \in 1..MaxYears :
               /\ ResYMD = YearSteps(StartYMD, k)
               /\ Result.day > now.day
               /\ k > 1 => DayOf(YearSteps(StartYMD, k - 1)) <= now.day
               /\ ~(StartYMD[2] = 2 /\ StartYMD[3] = 29) => ResYMD = YearsLater(StartYMD, k)

S_20280301 == <<"2", "0", "2", "8", "0", "3", "0", "1">>

\* C5 witness: start 20240229 has been advanced four times and 20280301 is
\* returned, in a leap year
C5_Witness ==
    Succeeded /\ repeat = <<"y">> /\ dStart = S_20240229 /\ steps = 4 /\ ret.date = S_20280301

-----------------------------------------------------------------------------
(* Rule grammar and errors *)

(* the four forms of the grammar, stated on the space- and comma-separated *)
(* fields of the rule                                                      *)
Fields(str) == Split(str, " ")
Items(field) == Range(Split(field, ","))
IsDailyForm(str) ==
    /\ Len(Fields(str)) = 2 /\ Fields(str)[1] = <<"d">>
    /\ Len(Fields(str)[2]) \in 1..3 /\ AllDigits(Fields(str)[2])
IsYearlyForm(str) == str = <<"y">>
IsWeeklyForm(str) ==
    /\ Len(Fields(str)) = 2 /\ Fields(str)[1] = <<"w">>
    /\ \A x \in Items(Fields(str)[2]) : Len(x) = 1 /\ IsDigit(x[1])
IsMonthlyForm(str) ==
    /\ Len(Fields(str)) \in 2..3 /\ Fields(str)[1] = <<"m">>
    /\ \A x \in Items(Fields(str)[2]) :
           \/ Len(x) \in 1..2 /\ AllDigits(x)
           \/ Len(x) \in 2..3 /\ x[1] = "-" /\ AllDigits(Tail(x))
    /\ Len(Fields(str)) = 3 =>
           \A x \in Items(Fields(str)[3]) : Len(x) \in 1..2 /\ AllDigits(x)
HasForm(str) ==
    IsDailyForm(str) \/ IsYearlyForm(str) \/ IsWeeklyForm(str) \/ IsMonthlyForm(str)

(* the numbers of a rule that has one of the forms are all in range *)
Num(x) == IF x[1] = "-" THEN 0 - DigitsVal(Tail(x)) ELSE DigitsVal(x)
NumbersInRange(str) ==
    /\ IsDailyForm(str) => Num(Fields(str)[2]) \in 1..400
    /\ IsWeeklyForm(str) => \A x \in Items(Fields(str)[2]) : Num(x) \in 1..7
    /\ IsMonthlyForm(str) =>
           /\ \A x \in Items(Fields(str)[2]) : Num(x) \in {-2, -1} \cup (1..31)
           /\ Len(Fields(str)) = 3 => \A x \in Items(Fields(str)[3]) : Num(x) \in 1..12

S_d500 == <<"d", " ", "5", "0", "0">>

C10_OneDateOrOneError ==
    /\ Done => \/ ret.err = "nil" /\ Parse(ret.date).ok
               \/ ret.err \in ErrorKinds /\ ret.date = <<>>
    /\ ~Done => ret = [date |-> <<>>, err |-> "nil"]
    /\ (Done /\ repeat = <<>>) => (ret.err = "EmptyRule" /\ startDate = zeroTime)
    /\ (Done /\ repeat # <<>> /\ ~Parse(dStart).ok) => ret.err = "InvalidDateSyntax"
    /\ (Done /\ ret.err = "EmptyRule") => repeat = <<>>
    /\ (Done /\ ret.err = "InvalidDateSyntax") => ~Parse(dStart).ok

\* C10 witness: a blank rule with an unparsable start date has failed with
\* EmptyRule
C10_Witness ==
    Done /\ repeat = <<>> /\ ~Parse(dStart).ok /\ ret.err = "EmptyRule"

-----------------------------------------------------------------------------
(* Termination *)

(* the loops of nextDaily and nextYearly *)
InLoop == pc \in {"dailyLoop", "nextYearly"}

(* what holds of every state of a call *)
C11_Bounds ==
    /\ (InLoop /\ steps >= 1) => ~afterNow(now, startDate)
    /\ pc = "dailyLoop" =>
           /\ startDate.day = InStart.day + steps * days
           /\ steps <= Max(1, ((now.day - InStart.day) \div days) + 1)
    /\ pc = "nextYearly" => steps <= Max(1, Year(now) - Year(InStart) + 1)
    /\ (Succeeded /\ (reDay(repeat) \/ reYear(repeat))) =>
           /\ steps >= 1
           /\ afterNow(now, startDate)
           /\ ret.date = Format(startDate)
    /\ (Succeeded /\ reWeek(repeat)) => Result.day - baseTime.day \in 1..7
    /\ pc \in {"phase1", "phase2"} =>
           /\ Len(monthsInt) <= 12
           /\ idx \in 1..(Len(monthsInt) + 1)
    /\ pc \in {"NextDate", "switch", "nextDaily", "dailyLoop", "nextYearly", "nextWeekly",
               "nextMonthly", "phase1", "phase2", "done"}

(* A measure of the work a call has left: its position in the control flow *)
(* (a resolver is entered once, a loop is never left for an earlier        *)
(* position), then the iterations its loop can still take                  *)
Stage ==
    IF pc = "NextDate" THEN 4
    ELSE IF pc = "switch" THEN 3
    ELSE IF pc \in {"nextDaily", "nextWeekly", "nextMonthly"} THEN 2
    ELSE IF pc = "done" THEN 0
    ELSE 1
Remaining ==
    IF pc = "dailyLoop"
    THEN (IF afterNow(now, startDate) THEN 1 ELSE ((now.day - startDate.day) \div days) + 1)
    ELSE IF pc = "nextYearly"
    THEN (IF afterNow(now, startDate) THEN 1 ELSE Year(now) - Year(startDate) + 1)
    ELSE IF pc = "phase1" THEN 14 + Len(monthsInt) + 1 - idx
    ELSE IF pc = "phase2" THEN Len(monthsInt) + 1 - idx
    ELSE 0

(* what holds of every step of a call *)
C11_Progress ==
    /\ InLoop => (startDate'.day > startDate.day /\ steps' = steps + 1)
    /\ (pc \in {"phase1", "phase2"} /\ pc' = pc) => idx' = idx + 1
    /\ pc = "phase2" => pc' # "phase1"
    /\ Stage' < Stage \/ (Stage' = Stage /\ Remaining' < Remaining)
    /\ Remaining' >= 0

\* C11: every call returns: each step of a call strictly decreases a
\* measure that cannot fall below zero, so no call steps forever; each
\* iteration of the daily and yearly loops moves the date strictly forward
\* and the loop stops at the first date after midnight(now), after at least
\* one step and at most the gap to now divided by the step; a weekly result
\* lies at most 7 days after base time; each loop of the monthly search
\* examines each listed month at most once, at most 12 months of base time's
\* year and 12 of the next.
C11_Terminates == []C11_Bounds /\ [][C11_Progress]_vars

\* C11 witness: a daily call has returned after MaxSteps + 1 iterations
C11_Witness == Succeeded /\ reDay(repeat) /\ steps = MaxSteps + 1

-----------------------------------------------------------------------------
(* Concurrent calls *)

(* the result of the call with the arguments of frame f, run alone *)
Alone(f) == NextDateCall(f.now, f.dStart, f.repeat)

\* C12: in every interleaving of two concurrent calls the package-level
\* list allMonths keeps its value, each call returns what the call with its
\* arguments returns when run alone, and two calls with the same (now,
\* start, rule) return the same result.
C12_CallsIndependent ==
    /\ pkgAllMonths = allMonths
    /\ Done => ret = Alone(frame)
    /\ other.pc = "done" => other.ret = Alone(other)
    /\ (Done /\ other.pc = "done"
          /\ now = other.now /\ dStart = other.dStart /\ repeat = other.repeat)
           => ret = other.ret

\* C12 witness: two calls with different rules are both inside the first
\* loop of the monthly search, each past its first month, and both range
\* over the package's allMonths
C12_Witness ==
    /\ pc = "phase1" /\ other.pc = "phase1"
    /\ idx > 1 /\ other.idx > 1
    /\ monthsInt = pkgAllMonths /\ other.monthsInt = pkgAllMonths
    /\ repeat # other.repeat

-----------------------------------------------------------------------------
(* The handlers *)

(* what a done request that found the row t must leave *)
DoneEffect(t) ==
    IF t.Repeat = <<>>
    THEN /\ resp'.status = 200
         /\ db'.scheduler = db.scheduler \ {t}
    ELSE \E r \in {NextDateCall(clock, t.Date, t.Repeat)} :
             IF r.err # "nil"
             THEN /\ resp'.status = 400
                  /\ db' = db
             ELSE /\ resp'.status = 200
                  /\ db'.scheduler = (db.scheduler \ {t}) \cup {[t EXCEPT !.Date = r.date]}
                  /\ \E u \in db'.scheduler :
                        /\ u.ID = t.ID /\ u.Title = t.Title
                        /\ u.Comment = t.Comment /\ u.Repeat = t.Repeat
                        /\ u.Date = r.date

(* a step that serves a request: only Tick moves the clock *)
Served(route) == clock' = clock /\ resp'.route = route

\* C13: a done request that reaches the handler and names a stored task
\* deletes the task and answers 200 when its stored repeat is empty (the
\* engine, which rejects an empty rule, is not consulted); when repeat is
\* not empty and NextDate(now, stored date, repeat) succeeds, the task stays
\* with its date replaced by that result and id, title, comment and repeat
\* as they were; when NextDate fails the answer is 400 and the table is
\* unchanged.  No done request touches any other row or the id counter.
C13_DoneEffect ==
    [][(Served("done") /\ resp'.status # 401) =>
          /\ db'.seq = db.seq
          /\ \A t \in rowsOf(resp'.req.v) : DoneEffect(t)
          /\ rowsOf(resp'.req.v) = {} => db' = db /\ resp'.status \in {400, 404}]_vars

\* C13 witness: the only task ever added is recurring, and the last request
\* served was a done that succeeded and left it dated 29 February 2024
C13_Witness ==
    /\ resp.route = "done" /\ resp.status = 200
    /\ db.seq = 1
    /\ \E t \in db.scheduler : t.ID = 1 /\ t.Repeat = S_m29_2 /\ t.Date = S_20240229

-----------------------------------------------------------------------------
(* The monthly search, continued *)

(* the dates (year, month, day) of base time's year and the next that the  *)
(* rule denotes and that lie after base time                               *)
YMDLess(a, b) ==
    \/ a[1] < b[1]
    \/ a[1] = b[1] /\ a[2] < b[2]
    \/ a[1] = b[1] /\ a[2] = b[2] /\ a[3] < b[3]
MonthlyCandidates ==
    {c \in {<<y, m, ResolveSpec(d, y, m)>> :
                y \in {BaseY, BaseY + 1}, m \in RuleMonths, d \in RuleDaySpecs} :
        /\ c[3] \in 1..MonthLen(c[1], c[2])
        /\ YMDLess(<<BaseY, BaseM, BaseD>>, c)}

\* C14: a successful monthly call returns the earliest date after base
\* time whose month is listed and whose day is a requested day resolved for
\* that month; the months are scanned in ascending order, and the loop over
\* the next year is running only when the rest of base time's year has no
\* such date.
C14_MonthlyEarliest ==
    /\ (Succeeded /\ reMonth(repeat)) =>
           /\ <<ResY, ResM, ResD>> \in MonthlyCandidates
           /\ \A c \in MonthlyCandidates : ~YMDLess(c, <<ResY, ResM, ResD>>)
    /\ pc \in {"phase1", "phase2"} => Ascending(monthsInt)
    /\ pc = "phase2" => ~MatchThisYear

\* C14 witness: a rule with several days and months has returned a date of
\* the year after base time's, the earliest of more than two candidates
C14_Witness ==
    /\ Succeeded /\ reMonth(repeat)
    /\ ResY = BaseY + 1
    /\ Cardinality(RuleDaySpecs) > 1 /\ Cardinality(RuleMonths) > 1
    /\ Cardinality(MonthlyCandidates) > 2

-----------------------------------------------------------------------------
(* Base time *)

(* the call has a start date that is not after now *)
StartNotAfterNow == Parse(TrimSpace(dStart)).ok /\ InStart.day <= now.day

\* C15: once a weekly or monthly call has computed base time, base time is
\* the start date when that is strictly after midnight(now) and
\* midnight(now) otherwise, also when start is the day of now; so a weekly
\* or monthly call whose start is not after now returns what the call with
\* the same now and rule returns for start = now.
C15_BaseTime ==
    /\ (pc \in {"phase1", "phase2"} \/ (Succeeded /\ (reWeek(repeat) \/ reMonth(repeat))))
           => baseTime = (IF InStart.day > now.day THEN InStart
                          ELSE [day |-> now.day, tod |-> 0])
    /\ (Done /\ (reWeek(repeat) \/ reMonth(repeat)) /\ StartNotAfterNow)
           => ret = NextDateCall(now, Format(now), repeat)

\* C15 witness: a monthly call whose start is the day of now has returned
C15_Witness ==
    /\ Succeeded /\ reMonth(repeat)
    /\ InStart.day = now.day
    /\ baseTime.day = now.day

-----------------------------------------------------------------------------
(* Lists as sets *)

(* the rule with each list written once in ascending order and, for a     *)
(* monthly rule, with the months written out                              *)
CanonicalRule ==
    IF reWeek(repeat) THEN WeeklyRule(SetToSeq(WeekSet))
    ELSE MonthlyRule(SetToSeq(RuleDaySpecs), SetToSeq(RuleMonths))

\* C16: a weekly or monthly call returns what the call with the same now
\* and start returns for the rule whose lists are the same sets written in
\* ascending order without repetition, a monthly rule without month group
\* being written with the months 1 to 12.
C16_ListsAreSets ==
    (Done /\ (reWeek(repeat) \/ reMonth(repeat)) /\ Parse(TrimSpace(dStart)).ok)
        => ret = NextDateCall(now, dStart, CanonicalRule)

\* C16 witness: the rule "m 15,-1,15 6,3" has returned a date
C16_Witness ==
    /\ Succeeded
    /\ repeat = MonthlyRule(<<15, -1, 15>>, <<6, 3>>)
    /\ CanonicalRule = MonthlyRule(<<-1, 15>>, <<3, 6>>)

-----------------------------------------------------------------------------
(* Validation of a task on add and update *)

Today == Format([day |-> clock.day, tod |-> 0])

(* the task of an add or update request has no title, a date that is no   *)
(* date, or a rule that NextDate rejects                                   *)
Refused(task) ==
    \/ task.Title = <<>>
    \/ task.Date # <<>> /\ ~Parse(task.Date).ok
    \/ /\ task.Repeat # <<>>
       /\ NextDateCall(clock, IF task.Date = <<>> THEN Today ELSE task.Date,
                       task.Repeat).err # "nil"

(* the date an accepted task is stored with *)
StoredDate(task) ==
    IF task.Date = <<>> THEN Today
    ELSE IF Parse(task.Date).t.day >= clock.day THEN task.Date
    ELSE IF task.Repeat = <<>> THEN Today
    ELSE NextDateCall(clock, task.Date, task.Repeat).date

(* the row an accepted task becomes under the id n *)
StoredRow(task, n) == [task EXCEPT !.ID = n, !.Date = StoredDate(task)]

\* C17: an add or update request that carries a task and is not stopped by
\* withAuth is answered 400 and changes nothing when the task has no title,
\* an unparsable date or a non-empty repeat that NextDate rejects;
\* otherwise the task is stored (added under the next id, or written over
\* the row of its id, if there is one) with all fields as sent except the
\* date, which is today for an empty date, the date sent when that is today
\* or later, today for an earlier date without repeat and
\* NextDate(today, date, repeat) for an earlier date with repeat; the date
\* stored is a valid YYYYMMDD date not earlier than today.
C17_ValidatedDate ==
    [][\A route \in {"add", "update"} :
          (Served(route) /\ resp'.status # 401 /\ resp'.req.v[1]) =>
              \E task \in {resp'.req.v[2]} :
                  IF Refused(task) THEN resp'.status = 400 /\ db' = db
                  ELSE /\ Parse(StoredDate(task)).ok
                       /\ Parse(StoredDate(task)).t.day >= clock.day
                       /\ IF route = "add"
                          THEN /\ resp'.status = 200
                               /\ db'.scheduler
                                    = db.scheduler \cup {StoredRow(task, db.seq + 1)}
                          ELSE IF rowsOf(task.ID) = {}
                          THEN resp'.status \in {400, 404} /\ db' = db
                          ELSE /\ resp'.status = 200
                               /\ db'.scheduler
                                    = (db.scheduler \ rowsOf(task.ID))
                                        \cup {StoredRow(task, t.ID) : t \in rowsOf(task.ID)}]_vars

\* C17 witness: a task dated yesterday with the rule "m 29 2" has been
\* added and is stored with the date 29 February 2024
C17_Witness ==
    /\ resp.route = "add" /\ resp.status = 200
    /\ resp.req.v[2].Repeat = S_m29_2
    /\ Parse(resp.req.v[2].Date).ok
    /\ Parse(resp.req.v[2].Date).t.day < clock.day
    /\ \E t \in db.scheduler : t.Date = S_20240229 /\ t.Repeat = S_m29_2

-----------------------------------------------------------------------------
(* Authentication *)

(* the cookie is a JWT signed with an HMAC method and the server's key, not *)
(* expired, and carries the hash of the configured password                *)
GoodToken(c) ==
    /\ c.jwt
    /\ c.alg \in {"HS256", "HS384", "HS512"}
    /\ c.key = auth.SecretKey
    /\ c.exp = noExp \/ c.exp.day > clock.day
    /\ c.PassHash = sha512hex(auth.Password)

Gated == {"tasks", "task", "add", "update", "delete", "done"}

(* the step serves the request it records, sent with the cookie c *)
ServedWith(route, c) ==
    /\ Served(route)
    /\ CASE route = "tasks" -> tasksHandler(c)
         [] route = "task" -> taskHandler(c, resp'.req.v)
         [] route = "add" -> addTaskHandler(c, resp'.req.v[1], resp'.req.v[2])
         [] route = "update" -> updateHandler(c, resp'.req.v[1], resp'.req.v[2])
         [] route = "delete" -> deleteTask(c, resp'.req.v)
         [] route = "done" -> taskDoneHandler(c, resp'.req.v)

(* the answers of withAuth *)
AuthRefusals ==
    {Resp(401, "authentication required"), Resp(401, "invalid JWT token"),
     Resp(500, "server configuration error")}
Refusal(r) == [status |-> r.status, error |-> r.error] \in AuthRefusals

\* C18: with a password configured, a request to list, get, add, update,
\* delete or done whose cookie is not a good token is answered 401 (or 500)
\* by withAuth and leaves the table as it was, so a handler behind withAuth
\* answers only requests with a good token; with no password configured no
\* request is refused by withAuth; signin and nextdate are never answered
\* by withAuth, and no request other than add, update, delete and done
\* changes the table.
C18_Gate ==
    [][/\ \A route \in Gated, c \in Cookies :
              ServedWith(route, c) =>
                  IF auth.Password = <<>> THEN ~Refusal(resp')
                  ELSE IF GoodToken(c) THEN ~Refusal(resp')
                  ELSE Refusal(resp') /\ resp'.status \in {401, 500} /\ db' = db
       /\ (Served("signin") \/ Served("nextdate")) =>
              /\ resp'.error \notin {"authentication required", "invalid JWT token"}
              /\ db' = db
       /\ (Served("tasks") \/ Served("task")) => db' = db]_vars

\* C18 witness: with a password configured and a task stored, a delete
\* request whose cookie was no good token has been answered 401
C18_Witness ==
    /\ auth.Password # <<>>
    /\ db.scheduler # {}
    /\ resp.route = "delete" /\ resp.req.v = Itoa(1)
    /\ resp.status = 401 /\ resp.error = "invalid JWT token"

-----------------------------------------------------------------------------
(* The result and the arguments *)

\* C19: for a rule of any kind, a date returned is a valid date strictly
\* after the day of now and strictly after the start date, also when the
\* start date is itself after now.
C19_StrictlyLater ==
    Succeeded =>
        /\ Parse(ret.date).ok
        /\ Result.day > now.day
        /\ Result.day > InStart.day

\* C19 witness: a daily call whose start is after now has returned after
\* one step
C19_Witness ==
    /\ Succeeded /\ reDay(repeat)
    /\ InStart.day > now.day
    /\ steps = 1

-----------------------------------------------------------------------------
(* Done on a stored recurring task *)

\* C20: every done request that reaches the handler and names a stored
\* task with a non-empty repeat is answered 200 and moves the stored date
\* of the task forward; none is answered 400 because NextDate fails.
C20_DoneAlwaysAdvances ==
    [][(Served("done") /\ resp'.status # 401) =>
          \A t \in rowsOf(resp'.req.v) :
              t.Repeat # <<>> =>
                  /\ resp'.status = 200
                  /\ \E u \in db'.scheduler :
                        /\ u.ID = t.ID
                        /\ Parse(u.Date).t.day > Parse(t.Date).t.day]_vars

-----------------------------------------------------------------------------
(* Yearly steps from 29 February *)

FromLeapDay == repeat = <<"y">> /\ StartYMD[2] = 2 /\ StartYMD[3] = 29

\* C22: with rule "y" and a start of 29 February, the first one-year step
\* lands on 1 March of the following year, every later step on 1 March of
\* the year after, and the date returned is a 1 March, never 28 or 29
\* February, also when its year is a leap year.
C22_LeapDayStartGivesFirstOfMarch ==
    FromLeapDay =>
        /\ (pc = "nextYearly" /\ steps >= 1) =>
               startDate = Date(StartYMD[1] + steps, 3, 1)
        /\ Done =>
               /\ ret.err = "nil"
               /\ steps >= 1
               /\ ResYMD = <<StartYMD[1] + steps, 3, 1>>

\* C22 witness: on the leap day 29 February 2028 the start 20240229 has
\* been stepped four times and 20280301 is returned
C22_Witness ==
    /\ Succeeded /\ FromLeapDay
    /\ now = Date(2028, 2, 29)
    /\ MonthLen(ResY, 2) = 29
    /\ ResYMD = <<2028, 3, 1>>

-----------------------------------------------------------------------------
(* The connection after db.Init *)

\* C23: db.Init closes the connection it opened exactly when it returns an
\* error: when it returns nil, on a file that existed or on one it has just
\* created, the connection is open, and when it returns an error after
\* opening, the connection is closed.
C23_ClosedExactlyOnError ==
    prog.pc # "Init" =>
        /\ prog.err = "nil" => conn = "open"
        /\ (prog.err # "nil" /\ conn # "nil") => conn = "closed"

-----------------------------------------------------------------------------
(* Concurrent done requests *)

(* the date two successive done requests leave on a task dated d with rule r *)
Advance(d, r) == NextDateCall(clock, d, r).date
AdvancedTwice(d, r) == Advance(Advance(d, r), r)

(* the earlier of two stored dates *)
EarlierDate(d, e) == IF Parse(d).t.day <= Parse(e).t.day THEN d ELSE e

\* C21: when two done requests on the same recurring task have both
\* answered 200, in any interleaving of their steps, the stored date is the
\* one two successive requests leave: the task has been advanced twice from
\* the date the first of them read, and no advance is lost.
C21_DoneAtomic ==
    \A p, q \in DOMAIN inflight :
        (/\ p # q
         /\ inflight[p].pc = "done" /\ inflight[q].pc = "done"
         /\ inflight[p].status = 200 /\ inflight[q].status = 200
         /\ inflight[p].id = inflight[q].id
         /\ inflight[p].task.Repeat # <<>>)
            => \A t \in rowsOf(inflight[p].id) :
                   t.Date = AdvancedTwice(EarlierDate(inflight[p].task.Date,
                                                      inflight[q].task.Date),
                                          t.Repeat)

=============================================================================
